---- MODULE Spec2Model ----
(***************************************************************************)
(* A model of the OSFL virtual machine (src/src/vm/vm.c): the register     *)
(* file, the call stack with its parallel return-address stack, the object *)
(* pool with reference counts, the coroutine table and the native-function *)
(* registry.  The host program drives the VM through its public functions  *)
(* (vm_register_native, vm_run, vm_retain_object, ...); vm_run is modelled *)
(* one executed instruction per step.                                      *)
(*                                                                         *)
(* The bytecode is an input of vm_create.  An instruction of the program   *)
(* is fixed the first time vm_run fetches it and never changes afterwards, *)
(* which explores exactly the runs of every program over the instruction   *)
(* set of the specification without telling apart programs that differ     *)
(* only in instructions that are never fetched.                            *)
(***************************************************************************)
EXTENDS Integers, Sequences, FiniteSets, TLC

VARIABLES
    host,               \* osfl_run_file: status, the last-error slot, what it acquired and freed
    lexer,              \* the Lexer, NoLexer without one
    lexed,              \* the tokens the lexer returned: to next_token, and to the peeks since
    ast,                \* the program the parser produced, NoNode without one
    compiled,           \* what compiler_compile_ast left in the compiler's globals
    code,               \* bytecode->instructions, fixed when first fetched
    instruction_count,  \* bytecode->instruction_count
    constant_pool,      \* bytecode->constant_pool.strings
    pc,                 \* vm->pc
    running,            \* vm->running
    registers,          \* vm->registers[16]
    call_stack,         \* vm->call_stack[0 .. call_stack_top-1]
    return_addresses,   \* vm->return_addresses[0 .. call_stack_top-1]
    objects,            \* vm->objects[0 .. object_count-1], handles
    object_capacity,    \* vm->object_capacity
    heap,               \* the VMObject each live handle points to
    coroutines,         \* vm->coroutines[MAX_COROUTINES]
    current_coro,       \* vm->current_coro
    native_registry,    \* vm->native_registry[0 .. native_count-1]
    phase,              \* where the host program is
    ret,                \* the value returned by the last public function
    call_sites,         \* history: for each frame, the CALL that pushed it
    native_calls,       \* history: number of native functions invoked
    args_read,          \* history: argument registers read by CALL_NATIVE
    destroyed,          \* history: the objects passed to destroy_object
    regs_at_yield       \* history: the registers when each slot last gave up control

vars == <<host, lexer, lexed, ast, compiled, code, instruction_count, constant_pool, pc, running, registers,
          call_stack, return_addresses, objects, object_capacity, heap,
          coroutines, current_coro, native_registry, phase, ret,
          call_sites, native_calls, args_read, destroyed, regs_at_yield>>

(***************************************************************************)
(* Program constants.                                                      *)
(***************************************************************************)
NUM_REGISTERS == 16
CALL_STACK_MAX == 1024
MAX_COROUTINES == 64
NATIVE_MAX == 64
FRAME_LOCALS == 8
OBJECT_INITIAL_CAPACITY == 8
FIELDS_INITIAL_CAPACITY == 4

(***************************************************************************)
(* Bounds of the model.                                                    *)
(***************************************************************************)
MaxProgLen == 3      \* programs have 1 .. MaxProgLen instructions
MaxProgLenAll == 2   \* the same, for the programs over every opcode
MaxInt == 4          \* integer results stay within -MaxInt .. MaxInt
MaxDepth == 3        \* call depth explored by the specifications that do
                     \* not study call-stack overflow
MaxObjects == 2      \* objects created in one run
MaxRefcount == 3     \* vm_retain_object is not called beyond this count
MaxNativeCalls == 2  \* native functions invoked in one run
MaxPropProgLen == 4  \* the same as MaxProgLen, for the programs that use properties
MaxProps == 2        \* properties the host adds to one object
MaxHostCoros == 2    \* coroutines the host creates before the run
MaxStmts == 17       \* the number of statements of the longest straight-line program
MaxNest == 2         \* the depth to which if, while and for statements nest
MaxSrcLen == 3       \* bytes of the short sources given to the lexer
MaxPeeks == 2        \* consecutive lexer_peek_token calls
MaxRound == 4        \* active slots of which a full round of yields is followed
MaxTokens == 3       \* tokens before EOF of the arrays given to the parser

\* The null pointer: 0 among object handles and frame positions, a string of
\* its own among names and function pointers.
NULL == 0
NULL_STR == "NULL"

\* (size_t)x for an int x.  size_t has 64 bits; TLC's integers have 32, so
\* the modulus is scaled down: only the order of the result relative to
\* instruction_count and MAX_COROUTINES matters.
SizeModulus == 2 ^ 30
ToSizeT(x) == IF x < 0 THEN x + SizeModulus ELSE x

Regs == 0 .. (NUM_REGISTERS - 1)
ValidReg(r) == ~(r < 0 \/ r >= NUM_REGISTERS)

Inst(op, a, b, c, d) ==
    [opcode |-> op, operand1 |-> a, operand2 |-> b, operand3 |-> c, operand4 |-> d]

\* An instruction of the program that was not fetched yet.
NoInstr == Inst("none", 0, 0, 0, 0)

(***************************************************************************)
(* Values (include/value.h): a type tag, a refcount and the union payload. *)
(***************************************************************************)
Value(t, rc, v) == [type |-> t, refcount |-> rc, val |-> v]
NullValue == Value("VAL_NULL", 0, 0)
IntValue(n) == Value("VAL_INT", 0, n)

InRange(n) == n >= -MaxInt /\ n <= MaxInt

call_stack_top == Len(call_stack)
object_count == Len(objects)
native_count == Len(native_registry)


\* No Lexer, and no call of the lexer yet.
NoLexer == [length |-> 0]
NoLexed == [tokens |-> <<>>, peeked |-> <<>>, compared |-> <<>>]

\* A NULL AstNode pointer, and the compiler's globals before any compilation.
NoNode == [type |-> "NULL"]
NoCompile == [function_count |-> 0]

\* The value a public function returns: nothing, a bool or an object handle.
RetVoid == [void |-> 0]
RetBool(b) == [bool |-> b]
RetHandle(h) == [handle |-> h]
RetSize(n) == [size |-> n]

\* What osfl_run_file acquires, and its state on entry: status is
\* OSFL_SUCCESS, osfl_clear_error has emptied the last-error slot, every
\* pointer is NULL and nothing has been freed.
Resources == {"source", "tokens", "lexer", "parser", "root", "bc", "vm"}
NoHost ==
    [status |-> "OSFL_SUCCESS", g_osfl_last_error |-> "OSFL_SUCCESS", pointers |-> {},
     frees |-> [r \in Resources |-> 0]]

\* A pointer is set; free or a destroy function is called on a pointer, and
\* does nothing on NULL; an error path sets the last-error slot and status.
Acquire(h, r) == [h EXCEPT !.pointers = @ \cup {r}]
Free(h, r) == IF r \in h.pointers THEN [h EXCEPT !.frees[r] = @ + 1] ELSE h
Failed(h, sc) == [h EXCEPT !.status = sc, !.g_osfl_last_error = sc]

\* osfl_run_file's state after the file is read, after the tokens are
\* collected and after parser_create, parser_parse and parser_destroy.
HostRead == Acquire(NoHost, "source")
HostLexed == Acquire(Acquire(HostRead, "lexer"), "tokens")
HostParsed == Free(Acquire(Acquire(HostLexed, "parser"), "root"), "parser")

stackVars == <<call_stack, return_addresses, call_sites>>
objVars == <<objects, object_capacity, heap, destroyed>>
coroVars == <<coroutines, current_coro, regs_at_yield>>
hostVars == <<host, lexer, lexed, ast, compiled, instruction_count, constant_pool, native_registry, phase, ret>>

\* An instruction that calls no native function.
NoNative == native_calls' = native_calls /\ args_read' = {}

\* "vm->running = 0; return;" before anything else was changed.
Fatal ==
    /\ running' = FALSE
    /\ UNCHANGED <<pc, registers, stackVars, objVars, coroVars>>
    /\ NoNative

\* "vm->pc++" after a register was written.
WriteReg(r, v) ==
    /\ registers' = [registers EXCEPT ![r] = v]
    /\ pc' = pc + 1
    /\ UNCHANGED <<running, stackVars, objVars, coroVars>>
    /\ NoNative

IsInt(r) == registers[r].type = "VAL_INT"

\* C's "/" on integers truncates towards zero.
CDiv(a, b) ==
    LET abs(x) == IF x < 0 THEN -x ELSE x
        q == abs(a) \div abs(b)
    IN  IF (a < 0) = (b < 0) THEN q ELSE -q

ExecNop ==
    /\ pc' = pc + 1
    /\ UNCHANGED <<running, registers, stackVars, objVars, coroVars>>
    /\ NoNative

ExecLoadConst(inst) ==
    LET r == inst.operand1
        val == inst.operand2
    IN  IF ~ValidReg(r) THEN Fatal
        ELSE WriteReg(r, Value("VAL_INT", 0, val))

ExecLoadConstFloat(inst) ==
    LET r == inst.operand1
    IN  IF ~ValidReg(r) THEN Fatal
        ELSE WriteReg(r, Value("VAL_FLOAT", 0, 0))

\* The string is the raw operand taken as a pointer.
ExecLoadConstStr(inst) ==
    LET r == inst.operand1
    IN  IF ~ValidReg(r) THEN Fatal
        ELSE WriteReg(r, Value("VAL_STRING", 0, inst.operand2))

\* A type mismatch stops the VM but still advances pc.
ExecAdd(inst) ==
    LET rd == inst.operand1
        rs1 == inst.operand2
        rs2 == inst.operand3
    IN  IF ~ValidReg(rd) \/ ~ValidReg(rs1) \/ ~ValidReg(rs2) THEN Fatal
        ELSE IF IsInt(rs1) /\ IsInt(rs2)
        THEN /\ InRange(registers[rs1].val + registers[rs2].val)
             /\ WriteReg(rd, Value("VAL_INT", 0, registers[rs1].val + registers[rs2].val))
        ELSE /\ running' = FALSE
             /\ pc' = pc + 1
             /\ UNCHANGED <<registers, stackVars, objVars, coroVars>>
             /\ NoNative

\* ExecArith with a division by zero that yields 0 instead of stopping.
ExecArith_ZeroQuotient(inst) ==
    LET rd == inst.operand1
        rs1 == inst.operand2
        rs2 == inst.operand3
        a == registers[rs1].val
        b == registers[rs2].val
    IN  IF ~ValidReg(rd) \/ ~ValidReg(rs1) \/ ~ValidReg(rs2) THEN Fatal
        ELSE IF ~IsInt(rs1) \/ ~IsInt(rs2) THEN Fatal
        ELSE IF inst.opcode = "OP_SUB"
        THEN InRange(a - b) /\ WriteReg(rd, Value("VAL_INT", 0, a - b))
        ELSE IF inst.opcode = "OP_MUL"
        THEN InRange(a * b) /\ WriteReg(rd, Value("VAL_INT", 0, a * b))
        ELSE IF b = 0 THEN WriteReg(rd, Value("VAL_INT", 0, 0))
        ELSE WriteReg(rd, Value("VAL_INT", 0, CDiv(a, b)))

ExecArith(inst) ==
    LET rd == inst.operand1
        rs1 == inst.operand2
        rs2 == inst.operand3
        a == registers[rs1].val
        b == registers[rs2].val
    IN  IF ~ValidReg(rd) \/ ~ValidReg(rs1) \/ ~ValidReg(rs2) THEN Fatal
        ELSE IF ~IsInt(rs1) \/ ~IsInt(rs2) THEN Fatal
        ELSE IF inst.opcode = "OP_SUB"
        THEN InRange(a - b) /\ WriteReg(rd, Value("VAL_INT", 0, a - b))
        ELSE IF inst.opcode = "OP_MUL"
        THEN InRange(a * b) /\ WriteReg(rd, Value("VAL_INT", 0, a * b))
        ELSE IF b = 0 THEN Fatal
        ELSE WriteReg(rd, Value("VAL_INT", 0, CDiv(a, b)))

ExecEq(inst) ==
    LET dest == inst.operand1
        rs1 == inst.operand2
        rs2 == inst.operand3
    IN  IF ~ValidReg(dest) \/ ~ValidReg(rs1) \/ ~ValidReg(rs2) THEN Fatal
        ELSE IF IsInt(rs1) /\ IsInt(rs2)
        THEN WriteReg(dest, Value("VAL_INT", 0,
                 IF registers[rs1].val = registers[rs2].val THEN 1 ELSE 0))
        ELSE Fatal

ExecNeq(inst) ==
    LET dest == inst.operand1
        rs1 == inst.operand2
        rs2 == inst.operand3
    IN  IF ~ValidReg(dest) \/ ~ValidReg(rs1) \/ ~ValidReg(rs2) THEN Fatal
        ELSE IF IsInt(rs1) /\ IsInt(rs2)
        THEN WriteReg(dest, Value("VAL_INT", 0,
                 IF registers[rs1].val # registers[rs2].val THEN 1 ELSE 0))
        ELSE Fatal

ExecMove(inst) ==
    LET dest == inst.operand1
        src == inst.operand2
    IN  IF ~ValidReg(dest) \/ ~ValidReg(src) THEN Fatal
        ELSE WriteReg(dest, registers[src])

\* No check of the target: vm_run's loop ends when pc is past the program.
ExecJump(inst) ==
    /\ pc' = ToSizeT(inst.operand1)
    /\ UNCHANGED <<running, registers, stackVars, objVars, coroVars>>
    /\ NoNative

ExecJumpIfZero(inst) ==
    LET r == inst.operand2
    IN  IF ~ValidReg(r) THEN Fatal
        ELSE IF ~IsInt(r) THEN Fatal
        ELSE /\ pc' = IF registers[r].val = 0 THEN ToSizeT(inst.operand1) ELSE pc + 1
             /\ UNCHANGED <<running, registers, stackVars, objVars, coroVars>>
             /\ NoNative


(***************************************************************************)
(* The call stack.  A frame holds its number of locals and its parent: the *)
(* position of the caller's frame in the call stack, or NULL.              *)
(***************************************************************************)
frame_create(local_count, parent) == [local_count |-> local_count, parent |-> parent]

\* vm_push_frame with the overflow test off by one.
vm_push_frame_OffByOne(frame, return_address) ==
    IF call_stack_top > CALL_STACK_MAX
    THEN /\ running' = FALSE
         /\ UNCHANGED stackVars
    ELSE /\ call_stack' = Append(call_stack, frame)
         /\ return_addresses' = Append(return_addresses, return_address)
         /\ call_sites' = Append(call_sites, [pc |-> pc, top |-> call_stack_top])
         /\ UNCHANGED running

\* On overflow the VM stops and nothing is pushed.
vm_push_frame(frame, return_address) ==
    IF call_stack_top >= CALL_STACK_MAX
    THEN /\ running' = FALSE
         /\ UNCHANGED stackVars
    ELSE /\ call_stack' = Append(call_stack, frame)
         /\ return_addresses' = Append(return_addresses, return_address)
         /\ call_sites' = Append(call_sites, [pc |-> pc, top |-> call_stack_top])
         /\ UNCHANGED running

vm_pop_frame ==
    IF call_stack_top = 0
    THEN /\ running' = FALSE
         /\ UNCHANGED <<pc, stackVars>>
    ELSE /\ call_stack' = SubSeq(call_stack, 1, call_stack_top - 1)
         /\ return_addresses' = SubSeq(return_addresses, 1, call_stack_top - 1)
         /\ call_sites' = SubSeq(call_sites, 1, call_stack_top - 1)
         /\ pc' = return_addresses[call_stack_top]
         /\ UNCHANGED running

\* ExecCall with the address of the CALL itself as the return address.
ExecCall_ReturnToCall(inst) ==
    LET func_addr == ToSizeT(inst.operand1)
        f == frame_create(FRAME_LOCALS,
                          IF call_stack_top > 0 THEN call_stack_top ELSE NULL)
    IN  IF func_addr >= instruction_count THEN Fatal
        ELSE /\ vm_push_frame(f, pc)
             /\ pc' = func_addr
             /\ UNCHANGED <<registers, objVars, coroVars>>
             /\ NoNative

\* pc is set to the function even when vm_push_frame reported an overflow.
ExecCall(inst) ==
    LET func_addr == ToSizeT(inst.operand1)
        f == frame_create(FRAME_LOCALS,
                          IF call_stack_top > 0 THEN call_stack_top ELSE NULL)
    IN  IF func_addr >= instruction_count THEN Fatal
        ELSE /\ vm_push_frame(f, pc + 1)
             /\ pc' = func_addr
             /\ UNCHANGED <<registers, objVars, coroVars>>
             /\ NoNative

ExecRet ==
    /\ IF call_stack_top = 0
       THEN running' = FALSE /\ UNCHANGED <<pc, stackVars>>
       ELSE vm_pop_frame
    /\ UNCHANGED <<registers, objVars, coroVars>>
    /\ NoNative

ExecHalt ==
    /\ running' = FALSE
    /\ UNCHANGED <<pc, registers, stackVars, objVars, coroVars>>
    /\ NoNative

ExecUnknown ==
    /\ running' = FALSE
    /\ UNCHANGED <<pc, registers, stackVars, objVars, coroVars>>
    /\ NoNative

(***************************************************************************)
(* Native functions.  The registry is a sequence of (name, func) entries.  *)
(***************************************************************************)
\* The refcount field of a Value that a native function leaves unset.
Unset == {0, 1}

\* What a read of vm->registers[i] yields for i < 0: memory before the
\* register file.
OutOfBounds == {NullValue, IntValue(-1)}

\* src/src/runtime/runtime.c: the results a native function can return.
osfl_abs(arg_count, args) ==
    IF arg_count < 1 THEN {NullValue}
    ELSE IF args[1].type = "VAL_INT"
    THEN {Value("VAL_INT", rc, IF args[1].val < 0 THEN -args[1].val ELSE args[1].val) :
              rc \in Unset}
    ELSE IF args[1].type = "VAL_FLOAT"
    THEN {Value("VAL_FLOAT", rc, args[1].val) : rc \in Unset}
    ELSE {NullValue}

osfl_bool(arg_count, args) ==
    IF arg_count < 1 THEN {NullValue}
    ELSE LET b == CASE args[1].type \in {"VAL_INT", "VAL_FLOAT", "VAL_BOOL"} ->
                        IF args[1].val # 0 THEN 1 ELSE 0
                    [] args[1].type = "VAL_NULL" -> 0
                    [] OTHER -> 1
         IN  {Value("VAL_BOOL", rc, b) : rc \in Unset}

CallFunc(func, arg_count, args) ==
    IF func = "osfl_abs" THEN osfl_abs(arg_count, args) ELSE osfl_bool(arg_count, args)

\* The index of the first registry entry with this name, 0 when there is none.
RegistryIndex(name) ==
    LET hits == {i \in 1 .. native_count : native_registry[i].name = name}
    IN  IF hits = {} THEN 0 ELSE CHOOSE i \in hits : \A j \in hits : i <= j

\* The results vm_call_native can return: an unknown name yields Null.
vm_call_native(name, arg_count, args) ==
    IF RegistryIndex(name) # 0
    THEN CallFunc(native_registry[RegistryIndex(name)].func, arg_count, args)
    ELSE {NullValue}

\* malloc(arg_count * sizeof(VMValue)): a negative count converts to a size
\* no allocation satisfies; malloc(0) may return NULL or a pointer.
MallocArgs(arg_count) ==
    IF arg_count < 0 THEN {FALSE}
    ELSE IF arg_count = 0 THEN {FALSE, TRUE}
    ELSE {TRUE}


\* The argument registers are copied before the destination register is
\* checked, and only their upper limit is checked.
ExecCallNative(inst) ==
    LET dest == inst.operand1
        cp_index == inst.operand2
        arg_count == inst.operand3
        base_reg == inst.operand4
        native_name == constant_pool[cp_index + 1]
        read == {base_reg + i : i \in {j \in 0 .. arg_count - 1 : base_reg + j < NUM_REGISTERS}}
        below == {i \in 1 .. arg_count : base_reg + i - 1 < 0}
    IN  IF cp_index < 0 \/ cp_index >= Len(constant_pool) THEN Fatal
        ELSE IF native_name = NULL_STR THEN Fatal
        ELSE \E allocated \in MallocArgs(arg_count) :
            IF ~allocated THEN Fatal
            ELSE IF \E i \in 0 .. arg_count - 1 : base_reg + i >= NUM_REGISTERS
            THEN /\ running' = FALSE
                 /\ args_read' = read
                 /\ UNCHANGED <<pc, registers, stackVars, objVars, coroVars, native_calls>>
            ELSE \E garbage \in [below -> OutOfBounds] :
                LET args == [i \in 1 .. arg_count |->
                                IF i \in below THEN garbage[i]
                                ELSE registers[base_reg + i - 1]]
                    k == RegistryIndex(native_name)
                IN  \E result \in vm_call_native(native_name, arg_count, args) :
                    /\ args_read' = read
                    /\ IF k # 0
                       THEN /\ Len(native_calls) < MaxNativeCalls
                            /\ native_calls' = Append(native_calls,
                                   [func |-> native_registry[k].func,
                                    arg_count |-> arg_count, args |-> args])
                       ELSE native_calls' = native_calls
                    /\ IF ValidReg(dest)
                       THEN /\ registers' = [registers EXCEPT ![dest] = result]
                            /\ pc' = pc + 1
                            /\ UNCHANGED running
                       ELSE /\ running' = FALSE
                            /\ UNCHANGED <<pc, registers>>
                    /\ UNCHANGED <<stackVars, objVars, coroVars>>

\* NULL arguments are refused, then a full registry, and only then is the
\* name looked up.
vm_register_native(name, func) ==
    /\ IF name = NULL_STR \/ func = NULL_STR THEN ret' = RetBool(FALSE) /\ UNCHANGED native_registry
       ELSE IF native_count >= NATIVE_MAX THEN ret' = RetBool(FALSE) /\ UNCHANGED native_registry
       ELSE IF RegistryIndex(name) # 0
       THEN /\ native_registry' = [native_registry EXCEPT ![RegistryIndex(name)].func = func]
            /\ ret' = RetBool(TRUE)
       ELSE /\ native_registry' = Append(native_registry, [name |-> name, func |-> func])
            /\ ret' = RetBool(TRUE)

(***************************************************************************)
(* Objects.  A VMObject has a refcount and a property table: parallel      *)
(* arrays of keys and values with a capacity.                              *)
(***************************************************************************)
\* The next object allocated: handles are never reused.
NewHandle == Len(objects) + Len(destroyed) + 1

vm_grow_object_array ==
    IF object_count >= object_capacity
    THEN object_capacity' = (IF object_capacity = 0 THEN OBJECT_INITIAL_CAPACITY
                             ELSE object_capacity * 2)
    ELSE UNCHANGED object_capacity

\* The new object is NewHandle.
vm_create_object ==
    /\ heap' = [h \in DOMAIN heap \cup {NewHandle} |->
                   IF h = NewHandle
                   THEN [refcount |-> 1, keys |-> <<>>, values |-> <<>>, capacity |-> 0]
                   ELSE heap[h]]
    /\ vm_grow_object_array
    /\ objects' = Append(objects, NewHandle)
    /\ UNCHANGED destroyed

vm_retain_object(obj) ==
    IF obj = NULL THEN UNCHANGED objVars
    ELSE /\ heap' = [heap EXCEPT ![obj].refcount = @ + 1]
         /\ UNCHANGED <<objects, object_capacity, destroyed>>

\* The position of obj in the pool, 0 when it is not there.
PoolIndex(obj) ==
    LET hits == {i \in 1 .. object_count : objects[i] = obj}
    IN  IF hits = {} THEN 0 ELSE CHOOSE i \in hits : \A j \in hits : i <= j

RemoveAt(seq, i) == SubSeq(seq, 1, i - 1) \o SubSeq(seq, i + 1, Len(seq))

\* vm_release_object that destroys only below zero.
vm_release_object_BelowZero(obj) ==
    IF obj = NULL THEN UNCHANGED objVars
    ELSE LET rc == heap[obj].refcount - 1
         IN  IF rc < 0 /\ PoolIndex(obj) # 0
             THEN /\ heap' = [h \in DOMAIN heap \ {obj} |-> heap[h]]
                  /\ objects' = RemoveAt(objects, PoolIndex(obj))
                  /\ destroyed' = Append(destroyed,
                         [obj |-> obj, refcount |-> rc, by |-> "vm_release_object"])
                  /\ UNCHANGED object_capacity
             ELSE /\ heap' = [heap EXCEPT ![obj].refcount = rc]
                  /\ UNCHANGED <<objects, object_capacity, destroyed>>

\* vm_release_object that destroys while one reference is left.
vm_release_object_TooEarly(obj) ==
    IF obj = NULL THEN UNCHANGED objVars
    ELSE LET rc == heap[obj].refcount - 1
         IN  IF rc <= 1 /\ PoolIndex(obj) # 0
             THEN /\ heap' = [h \in DOMAIN heap \ {obj} |-> heap[h]]
                  /\ objects' = RemoveAt(objects, PoolIndex(obj))
                  /\ destroyed' = Append(destroyed,
                         [obj |-> obj, refcount |-> rc, by |-> "vm_release_object"])
                  /\ UNCHANGED object_capacity
             ELSE /\ heap' = [heap EXCEPT ![obj].refcount = rc]
                  /\ UNCHANGED <<objects, object_capacity, destroyed>>

\* destroy_object frees the object: it leaves the heap, and the history
\* keeps the refcount it had at that moment.
vm_release_object(obj) ==
    IF obj = NULL THEN UNCHANGED objVars
    ELSE LET rc == heap[obj].refcount - 1
         IN  IF rc <= 0 /\ PoolIndex(obj) # 0
             THEN /\ heap' = [h \in DOMAIN heap \ {obj} |-> heap[h]]
                  /\ objects' = RemoveAt(objects, PoolIndex(obj))
                  /\ destroyed' = Append(destroyed,
                         [obj |-> obj, refcount |-> rc, by |-> "vm_release_object"])
                  /\ UNCHANGED object_capacity
             ELSE /\ heap' = [heap EXCEPT ![obj].refcount = rc]
                  /\ UNCHANGED <<objects, object_capacity, destroyed>>


\* snprintf(buffer, 32, "%" PRId64, n): the decimal digits of n, a minus
\* sign first when n is negative.
RECURSIVE Digits(_)
Digits(n) ==
    LET d == <<"0", "1", "2", "3", "4", "5", "6", "7", "8", "9">>
    IN  IF n < 10 THEN <<d[n + 1]>> ELSE Append(Digits(n \div 10), d[(n % 10) + 1])

IntToKey(n) == IF n < 0 THEN <<"-">> \o Digits(-n) ELSE Digits(n)

\* The position of key in the object's table, 0 when absent.
KeyIndex(o, key) ==
    LET hits == {i \in 1 .. Len(o.keys) : o.keys[i] = key}
    IN  IF hits = {} THEN 0 ELSE CHOOSE i \in hits : \A j \in hits : i <= j

\* vm_set_property that appends without looking for the key.
vm_set_property_AlwaysAppends(o, key, val) ==
    [o EXCEPT !.capacity = IF Len(o.keys) >= o.capacity
                           THEN (IF o.capacity = 0 THEN FIELDS_INITIAL_CAPACITY
                                 ELSE o.capacity * 2)
                           ELSE o.capacity,
              !.keys = Append(o.keys, key),
              !.values = Append(o.values, val)]

\* The object after vm_set_property: an existing key has its value replaced,
\* a new one is appended after the table has grown if it was full.
vm_set_property(o, key, val) ==
    IF KeyIndex(o, key) # 0
    THEN [o EXCEPT !.values[KeyIndex(o, key)] = val]
    ELSE [o EXCEPT !.capacity = IF Len(o.keys) >= o.capacity
                                THEN (IF o.capacity = 0 THEN FIELDS_INITIAL_CAPACITY
                                      ELSE o.capacity * 2)
                                ELSE o.capacity,
                   !.keys = Append(o.keys, key),
                   !.values = Append(o.values, val)]

vm_get_property(o, key) ==
    IF KeyIndex(o, key) # 0 THEN o.values[KeyIndex(o, key)] ELSE NullValue

ExecNewObj(inst) ==
    LET rd == inst.operand1
    IN  IF ~ValidReg(rd) THEN Fatal
        ELSE /\ Len(objects) + Len(destroyed) < MaxObjects
             /\ vm_create_object
             /\ registers' = [registers EXCEPT ![rd] = Value("VAL_OBJ", 1, NewHandle)]
             /\ pc' = pc + 1
             /\ UNCHANGED <<running, stackVars, coroVars>>
             /\ NoNative

ExecSetProp(inst) ==
    LET ro == inst.operand1
        rk == inst.operand2
        rv == inst.operand3
        obj == registers[ro].val
    IN  IF ~ValidReg(ro) \/ ~ValidReg(rk) \/ ~ValidReg(rv) THEN Fatal
        ELSE IF registers[ro].type # "VAL_OBJ" THEN Fatal
        ELSE IF registers[rk].type # "VAL_INT" THEN Fatal
        ELSE /\ obj \in DOMAIN heap
             /\ heap' = [heap EXCEPT ![obj] =
                            vm_set_property(heap[obj], IntToKey(registers[rk].val), registers[rv])]
             /\ pc' = pc + 1
             /\ UNCHANGED <<running, registers, stackVars, coroVars,
                            objects, object_capacity, destroyed>>
             /\ NoNative

\* The refcount increment after the load is made on a local copy.
ExecGetProp(inst) ==
    LET rd == inst.operand1
        ro == inst.operand2
        rk == inst.operand3
        obj == registers[ro].val
    IN  IF ~ValidReg(rd) \/ ~ValidReg(ro) \/ ~ValidReg(rk) THEN Fatal
        ELSE IF registers[ro].type # "VAL_OBJ" THEN Fatal
        ELSE IF registers[rk].type # "VAL_INT" THEN Fatal
        ELSE /\ obj \in DOMAIN heap
             /\ WriteReg(rd, vm_get_property(heap[obj], IntToKey(registers[rk].val)))

(***************************************************************************)
(* Coroutines.  A slot holds its active flag and its saved pc.  The three  *)
(* functions below work on the part of the VM they touch: a record of pc,  *)
(* coroutines and current_coro.                                            *)
(***************************************************************************)
CoroState == [pc |-> pc, coroutines |-> coroutines, current_coro |-> current_coro]

\* The first inactive slot, or MAX_COROUTINES when every slot is active.
FirstInactive(cs) ==
    LET free == {i \in 0 .. MAX_COROUTINES - 1 : ~cs[i].active}
    IN  IF free = {} THEN MAX_COROUTINES ELSE CHOOSE i \in free : \A j \in free : i <= j

\* The coroutine table after vm_create_coroutine.
vm_create_coroutine(cs) ==
    IF FirstInactive(cs) < MAX_COROUTINES
    THEN [cs EXCEPT ![FirstInactive(cs)] = [active |-> TRUE, pc |-> 0]]
    ELSE cs

\* A scan that starts at slot 0 instead of the slot after c.
NextActive_FromZero(cs, c) ==
    LET act == {i \in 0 .. MAX_COROUTINES - 1 : cs[i].active}
    IN  IF act = {} THEN (c + 1) % MAX_COROUTINES
        ELSE CHOOSE i \in act : \A j \in act : i <= j

\* The first active slot in the order c+1, c+2, ..., c+MAX_COROUTINES.
NextActive(cs, c) ==
    LET offs == {i \in 0 .. MAX_COROUTINES - 1 : cs[(c + 1 + i) % MAX_COROUTINES].active}
    IN  IF offs = {} THEN (c + 1) % MAX_COROUTINES
        ELSE (c + 1 + (CHOOSE i \in offs : \A j \in offs : i <= j)) % MAX_COROUTINES

vm_coroutine_yield(s) ==
    LET c == s.current_coro
        saved == [s.coroutines EXCEPT ![c].pc = s.pc]
        next == NextActive(saved, c)
    IN  IF ~s.coroutines[c].active THEN s
        ELSE [pc |-> saved[next].pc, coroutines |-> saved, current_coro |-> next]

\* vm_coroutine_resume that only yields: the next slot is the round-robin one.
vm_coroutine_resume_RoundRobin(s, coro_index) ==
    IF coro_index >= MAX_COROUTINES \/ ~s.coroutines[coro_index].active THEN s
    ELSE vm_coroutine_yield(s)

vm_coroutine_resume(s, coro_index) ==
    IF coro_index >= MAX_COROUTINES \/ ~s.coroutines[coro_index].active THEN s
    ELSE LET y == vm_coroutine_yield(s)
             saved == [y.coroutines EXCEPT ![y.current_coro].pc = y.pc]
         IN  [pc |-> saved[coro_index].pc, coroutines |-> saved, current_coro |-> coro_index]

\* The slot that is allocated is the first inactive one, whatever op1 is.
ExecCoroInit(inst) ==
    LET idx == ToSizeT(inst.operand1)
    IN  IF idx >= MAX_COROUTINES THEN Fatal
        ELSE /\ coroutines' = vm_create_coroutine(coroutines)
             /\ pc' = pc + 1
             /\ UNCHANGED <<running, registers, stackVars, objVars, current_coro,
                            regs_at_yield>>
             /\ NoNative

ExecCoroYield ==
    LET s == vm_coroutine_yield(CoroState)
    IN  /\ pc' = s.pc + 1
        /\ coroutines' = s.coroutines
        /\ current_coro' = s.current_coro
        /\ regs_at_yield' = IF coroutines[current_coro].active
                            THEN [regs_at_yield EXCEPT ![current_coro] = registers]
                            ELSE regs_at_yield
        /\ UNCHANGED <<running, registers, stackVars, objVars>>
        /\ NoNative

ExecCoroResume(inst) ==
    LET idx == ToSizeT(inst.operand1)
        s == vm_coroutine_resume(CoroState, idx)
    IN  /\ pc' = s.pc + 1
        /\ coroutines' = s.coroutines
        /\ current_coro' = s.current_coro
        /\ regs_at_yield' = IF idx < MAX_COROUTINES /\ coroutines[idx].active
                            THEN [regs_at_yield EXCEPT ![current_coro] = registers]
                            ELSE regs_at_yield
        /\ UNCHANGED <<running, registers, stackVars, objVars>>
        /\ NoNative


(***************************************************************************)
(* vm_run: while running and pc is inside the program, execute the         *)
(* instruction at pc.                                                      *)
(***************************************************************************)
vm_execute_instruction(inst) ==
    CASE inst.opcode = "OP_NOP" -> ExecNop
      [] inst.opcode = "OP_LOAD_CONST" -> ExecLoadConst(inst)
      [] inst.opcode = "OP_LOAD_CONST_FLOAT" -> ExecLoadConstFloat(inst)
      [] inst.opcode = "OP_LOAD_CONST_STR" -> ExecLoadConstStr(inst)
      [] inst.opcode = "OP_ADD" -> ExecAdd(inst)
      [] inst.opcode \in {"OP_SUB", "OP_MUL", "OP_DIV"} -> ExecArith(inst)
      [] inst.opcode = "OP_EQ" -> ExecEq(inst)
      [] inst.opcode = "OP_NEQ" -> ExecNeq(inst)
      [] inst.opcode = "OP_MOVE" -> ExecMove(inst)
      [] inst.opcode = "OP_JUMP" -> ExecJump(inst)
      [] inst.opcode = "OP_JUMP_IF_ZERO" -> ExecJumpIfZero(inst)
      [] inst.opcode = "OP_CALL" -> ExecCall(inst)
      [] inst.opcode = "OP_CALL_NATIVE" -> ExecCallNative(inst)
      [] inst.opcode = "OP_RET" -> ExecRet
      [] inst.opcode = "OP_HALT" -> ExecHalt
      [] inst.opcode = "OP_NEWOBJ" -> ExecNewObj(inst)
      [] inst.opcode = "OP_SETPROP" -> ExecSetProp(inst)
      [] inst.opcode = "OP_GETPROP" -> ExecGetProp(inst)
      [] inst.opcode = "OP_CORO_INIT" -> ExecCoroInit(inst)
      [] inst.opcode = "OP_CORO_YIELD" -> ExecCoroYield
      [] inst.opcode = "OP_CORO_RESUME" -> ExecCoroResume(inst)
      [] OTHER -> ExecUnknown

\* A loop that goes on after the VM was stopped.
LoopCond_IgnoresRunning == pc < instruction_count

\* The loop condition of vm_run.
LoopCond == running /\ pc < instruction_count

\* instructions[pc] is inst: it already was, or it is fixed now.
Fetch(inst) ==
    IF code[pc] = NoInstr THEN code' = [code EXCEPT ![pc] = inst]
    ELSE code[pc] = inst /\ code' = code

\* The step executes the instruction Executed: in vm_run, with the loop
\* condition true, every step is one iteration of the loop.
Executing == phase = "vm_run" /\ LoopCond /\ code'[pc] # NoInstr
Executed == code'[pc]

\* The instruction at pc was executed and stopped the VM without moving pc.
StoppedAt(op) ==
    /\ ~running
    /\ pc < instruction_count
    /\ code[pc] # NoInstr
    /\ code[pc].opcode = op

\* One iteration of the loop, for the programs over the instruction set IS
\* whose calls nest at most depth deep.
VmRunStep(IS, depth) ==
    /\ phase = "vm_run"
    /\ LoopCond
    /\ \E inst \in IS : Fetch(inst) /\ vm_execute_instruction(inst)
    /\ Len(call_stack') <= depth
    /\ UNCHANGED hostVars

\* The loop condition is false: vm_run returns to the host.
VmRunReturn ==
    /\ phase = "vm_run"
    /\ ~LoopCond
    /\ phase' = "done"
    /\ UNCHANGED <<host, lexer, lexed, ast, compiled, code, instruction_count, constant_pool, pc, running, registers,
                   stackVars, objVars, coroVars, native_registry, ret,
                   native_calls, args_read>>

vmState == <<code, pc, running, registers, stackVars, coroVars, native_calls, args_read>>

(***************************************************************************)
(* The host program's calls of the public functions.                       *)
(***************************************************************************)
HostRun ==
    /\ phase \in {"setup", "done"}
    /\ phase' = "vm_run"
    /\ ret' = RetVoid
    /\ UNCHANGED <<host, lexer, lexed, ast, compiled, instruction_count, constant_pool, native_registry, vmState, objVars>>

\* The host registers its native functions before it runs the program.
HostRegisterNative(inputs) ==
    /\ phase = "setup"
    /\ \E in \in inputs : vm_register_native(in[1], in[2])
    /\ UNCHANGED <<host, lexer, lexed, ast, compiled, instruction_count, constant_pool, phase, vmState, objVars>>

HostCreateObject ==
    /\ phase \in {"setup", "done"}
    /\ Len(objects) + Len(destroyed) < MaxObjects
    /\ vm_create_object
    /\ ret' = RetHandle(NewHandle)
    /\ UNCHANGED <<host, lexer, lexed, ast, compiled, instruction_count, constant_pool, native_registry, phase, vmState>>

\* The host retains and releases objects that are alive.
HostRetain ==
    /\ phase \in {"setup", "done"}
    /\ \E obj \in DOMAIN heap \cup {NULL} :
        /\ obj # NULL => heap[obj].refcount < MaxRefcount
        /\ vm_retain_object(obj)
    /\ ret' = RetVoid
    /\ UNCHANGED <<host, lexer, lexed, ast, compiled, instruction_count, constant_pool, native_registry, phase, vmState>>

HostRelease ==
    /\ phase \in {"setup", "done"}
    /\ \E obj \in DOMAIN heap \cup {NULL} : vm_release_object(obj)
    /\ ret' = RetVoid
    /\ UNCHANGED <<host, lexer, lexed, ast, compiled, instruction_count, constant_pool, native_registry, phase, vmState>>

\* vm_destroy pops every frame, destroys every pooled object whatever its
\* refcount, and frees the VM.
vm_destroy ==
    /\ call_stack' = <<>>
    /\ return_addresses' = <<>>
    /\ call_sites' = <<>>
    /\ pc' = IF call_stack_top > 0 THEN return_addresses[1] ELSE pc
    /\ destroyed' =
           [i \in 1 .. Len(destroyed) + object_count |->
               IF i <= Len(destroyed) THEN destroyed[i]
               ELSE LET obj == objects[i - Len(destroyed)]
                    IN  [obj |-> obj, refcount |-> heap[obj].refcount, by |-> "vm_destroy"]]
    /\ heap' = <<>>
    /\ objects' = <<>>
    /\ object_capacity' = 0

HostDestroy ==
    /\ phase \in {"setup", "done"}
    /\ vm_destroy
    /\ phase' = "destroyed"
    /\ ret' = RetVoid
    /\ UNCHANGED <<host, lexer, lexed, ast, compiled, code, instruction_count, constant_pool, native_registry, running,
                   registers, coroVars, native_calls, args_read>>

\* vm_create(bytecode) for a program of one of the given lengths with the
\* given constant pool.
InitVM(lengths, pool) ==
    /\ lexer = NoLexer
    /\ lexed = NoLexed
    /\ ast = NoNode
    /\ compiled = NoCompile
    /\ instruction_count \in lengths
    /\ code = [i \in 0 .. instruction_count - 1 |-> NoInstr]
    /\ constant_pool = pool
    /\ pc = 0
    /\ running = TRUE
    /\ registers = [r \in Regs |-> NullValue]
    /\ call_stack = <<>>
    /\ return_addresses = <<>>
    /\ objects = <<>>
    /\ object_capacity = 0
    /\ heap = <<>>
    /\ coroutines = [i \in 0 .. MAX_COROUTINES - 1 |-> [active |-> FALSE, pc |-> 0]]
    /\ current_coro = 0
    /\ regs_at_yield = [i \in 0 .. MAX_COROUTINES - 1 |-> <<>>]
    /\ native_registry = <<>>
    /\ phase = "setup"
    /\ ret = RetVoid
    /\ host = NoHost
    /\ call_sites = <<>>
    /\ native_calls = <<>>
    /\ args_read = {}
    /\ destroyed = <<>>

(***************************************************************************)
(* SpecArith: programs of constant loads and integer arithmetic.           *)
(***************************************************************************)
ArithInstrs ==
    {Inst("OP_LOAD_CONST", r, v, 0, 0) : r \in {0, 1}, v \in {0, 2, -3}}
    \cup {Inst("OP_LOAD_CONST_FLOAT", 1, 0, 0, 0), Inst("OP_HALT", 0, 0, 0, 0)}
    \cup {Inst(op, 2, 0, 1, 0) : op \in {"OP_ADD", "OP_SUB", "OP_MUL", "OP_DIV"}}
    \cup {Inst("OP_DIV", rd, 0, rs2, 0) : rd \in {0, 16}, rs2 \in {0, 1}}

InitArith == InitVM(1 .. MaxProgLen, <<>>)
NextArith == HostRun \/ VmRunStep(ArithInstrs, MaxDepth) \/ VmRunReturn
SpecArith == InitArith /\ [][NextArith]_vars


\* C1: executing DIV when R[op2] and R[op3] are both Int and R[op3] = 0 sets
\* running to false and writes no register, so no quotient is produced.
C1_DivByZeroHalts ==
    [][(/\ Executing
        /\ Executed.opcode = "OP_DIV"
        /\ ValidReg(Executed.operand2) /\ ValidReg(Executed.operand3)
        /\ IsInt(Executed.operand2) /\ IsInt(Executed.operand3)
        /\ registers[Executed.operand3].val = 0)
       => (running' = FALSE /\ registers' = registers)]_vars

\* A DIV with a valid destination and two Int operands, the divisor 0 and
\* the dividend not, has stopped the VM.
C1_Witness ==
    /\ StoppedAt("OP_DIV")
    /\ ValidReg(code[pc].operand1)
    /\ ValidReg(code[pc].operand2) /\ ValidReg(code[pc].operand3)
    /\ IsInt(code[pc].operand2) /\ IsInt(code[pc].operand3)
    /\ registers[code[pc].operand2].val # 0
    /\ registers[code[pc].operand3].val = 0


(***************************************************************************)
(* SpecCalls: programs of calls, returns and jumps, nested at most         *)
(* MaxDepth deep.                                                          *)
(***************************************************************************)
Targets == (0 .. MaxProgLen) \cup {-1}

CallInstrs ==
    {Inst("OP_CALL", t, 0, 0, 0) : t \in Targets}
    \cup {Inst("OP_JUMP", t, 0, 0, 0) : t \in Targets}
    \cup {Inst("OP_JUMP_IF_ZERO", t, 0, 0, 0) : t \in {0, MaxProgLen}}
    \cup {Inst("OP_LOAD_CONST", 0, v, 0, 0) : v \in {0, 1}}
    \cup {Inst("OP_RET", 0, 0, 0, 0), Inst("OP_NOP", 0, 0, 0, 0), Inst("OP_HALT", 0, 0, 0, 0)}

InitCalls == InitVM(1 .. MaxProgLen, <<>>)
NextCalls == HostRun \/ VmRunStep(CallInstrs, MaxDepth) \/ VmRunReturn
SpecCalls == InitCalls /\ [][NextCalls]_vars

\* C2: the RET that matches a CALL executed at pc = p with call_stack_top = k
\* leaves call_stack_top = k and pc = p + 1, whatever matched pairs nested
\* in between.  call_sites holds, for each frame, the p and k of its CALL.
C2_MatchedReturn ==
    [][(Executing /\ Executed.opcode = "OP_RET" /\ call_stack_top > 0)
       => (/\ Len(call_stack') = call_sites[call_stack_top].top
           /\ pc' = call_sites[call_stack_top].pc + 1)]_vars

\* The program CALL 1; CALL 2; RET is back at pc = 1 with an empty call
\* stack: the CALL at 0 was matched after the pair nested in it returned.
C2_Witness ==
    /\ instruction_count = 3
    /\ code[0] = Inst("OP_CALL", 1, 0, 0, 0)
    /\ code[1] = Inst("OP_CALL", 2, 0, 0, 0)
    /\ code[2] = Inst("OP_RET", 0, 0, 0, 0)
    /\ pc = 1
    /\ call_stack_top = 0
    /\ running

\* C4: a JUMP, or a JUMP_IF_ZERO whose branch is taken, to a target outside
\* 0 .. instruction_count - 1 sets running to false.
C4_BadJumpHalts ==
    [][(/\ Executing
        /\ \/ Executed.opcode = "OP_JUMP"
           \/ /\ Executed.opcode = "OP_JUMP_IF_ZERO"
              /\ ValidReg(Executed.operand2)
              /\ IsInt(Executed.operand2)
              /\ registers[Executed.operand2].val = 0
        /\ Executed.operand1 \notin 0 .. instruction_count - 1)
       => running' = FALSE]_vars

(***************************************************************************)
(* SpecOverflow: programs of calls and returns, with the whole call stack. *)
(***************************************************************************)
OverflowInstrs ==
    {Inst("OP_CALL", t, 0, 0, 0) : t \in 0 .. MaxProgLen}
    \cup {Inst("OP_RET", 0, 0, 0, 0), Inst("OP_NOP", 0, 0, 0, 0), Inst("OP_HALT", 0, 0, 0, 0)}

InitOverflow == InitVM(1 .. MaxProgLen, <<>>)
\* No bound on the depth: the VM's own check is what stops the calls.
NextOverflow == HostRun \/ VmRunStep(OverflowInstrs, CALL_STACK_MAX + 1) \/ VmRunReturn
SpecOverflow == InitOverflow /\ [][NextOverflow]_vars

\* C3: call_stack_top never exceeds 1024, and a CALL executed with 1024
\* frames on the call stack sets running to false and pushes no frame.
C3_CallStackBounded ==
    /\ [](call_stack_top <= CALL_STACK_MAX)
    /\ [][(Executing /\ Executed.opcode = "OP_CALL" /\ call_stack_top = CALL_STACK_MAX)
          => (/\ running' = FALSE
              /\ call_stack' = call_stack
              /\ return_addresses' = return_addresses)]_vars

\* The VM has stopped with 1024 frames while pc is at an instruction that
\* does not stop it: the CALL that jumped there found the call stack full.
C3_Witness ==
    /\ call_stack_top = CALL_STACK_MAX
    /\ ~running
    /\ pc < instruction_count
    /\ code[pc].opcode \in {"OP_NOP", "OP_CALL"}
    /\ ToSizeT(code[pc].operand1) < instruction_count


(***************************************************************************)
(* SpecNative: the host registers native functions, then runs a program of *)
(* native calls.                                                           *)
(***************************************************************************)
NativePool == <<"abs", "missing">>
NativeInputs == {<<"abs", "osfl_abs">>, <<"abs", "osfl_bool">>}

\* CALL_NATIVE dest, cp_index, arg_count, base_reg
NativeInstrs ==
    {Inst("OP_CALL_NATIVE", 1, 0, n, 0) : n \in {-1, 0, 1, 2}}
    \cup {Inst("OP_CALL_NATIVE", 1, cp, 1, 0) : cp \in {-1, 1, 2}}
    \cup {Inst("OP_CALL_NATIVE", dest, 0, 1, 0) : dest \in {-1, 16}}
    \cup {Inst("OP_CALL_NATIVE", 1, 0, 1, base) : base \in {-1, 16}}
    \cup {Inst("OP_CALL_NATIVE", 1, 0, 2, 15)}
    \cup {Inst("OP_LOAD_CONST", 0, v, 0, 0) : v \in {-3, 0}}
    \cup {Inst("OP_HALT", 0, 0, 0, 0)}

InitNative == InitVM(1 .. MaxProgLen, NativePool)
NextNative ==
    \/ HostRegisterNative(NativeInputs)
    \/ HostRun
    \/ VmRunStep(NativeInstrs, MaxDepth)
    \/ VmRunReturn
SpecNative == InitNative /\ [][NextNative]_vars

\* C5: CALL_NATIVE of a name that is not in the registry sets running to
\* false.
C5_UnknownNativeHalts ==
    [][(/\ Executing
        /\ Executed.opcode = "OP_CALL_NATIVE"
        /\ Executed.operand2 \in 0 .. Len(constant_pool) - 1
        /\ RegistryIndex(constant_pool[Executed.operand2 + 1]) = 0)
       => running' = FALSE]_vars

\* The register operands of an instruction: for CALL_NATIVE the destination
\* and the argument range op4 .. op4 + op3 - 1.
RegisterOperands(inst) ==
    CASE inst.opcode \in {"OP_LOAD_CONST", "OP_LOAD_CONST_FLOAT", "OP_LOAD_CONST_STR",
                          "OP_NEWOBJ"} -> {inst.operand1}
      [] inst.opcode \in {"OP_ADD", "OP_SUB", "OP_MUL", "OP_DIV", "OP_EQ", "OP_NEQ",
                          "OP_SETPROP", "OP_GETPROP"} ->
             {inst.operand1, inst.operand2, inst.operand3}
      [] inst.opcode = "OP_MOVE" -> {inst.operand1, inst.operand2}
      [] inst.opcode = "OP_JUMP_IF_ZERO" -> {inst.operand2}
      [] inst.opcode = "OP_CALL_NATIVE" ->
             {inst.operand1} \cup (inst.operand4 .. inst.operand4 + inst.operand3 - 1)
      [] OTHER -> {}

\* C6: an instruction with a register operand outside 0 .. 15 sets running
\* to false, reads and writes no register and invokes no native function.
C6_BadRegisterHalts ==
    [][(Executing /\ \E r \in RegisterOperands(Executed) : ~ValidReg(r))
       => (/\ running' = FALSE
           /\ registers' = registers
           /\ args_read' = {}
           /\ native_calls' = native_calls)]_vars


(***************************************************************************)
(* Spec: the host registers a native function, runs a program over every   *)
(* opcode, and may run it again, release objects and destroy the VM.       *)
(***************************************************************************)
AllInstrs ==
    {Inst("OP_NOP", 0, 0, 0, 0), Inst("OP_RET", 0, 0, 0, 0), Inst("OP_HALT", 0, 0, 0, 0),
     Inst("OP_CORO_YIELD", 0, 0, 0, 0), Inst("OP_UNKNOWN", 0, 0, 0, 0)}
    \cup {Inst("OP_LOAD_CONST", r, 0, 0, 0) : r \in {0, 16}}
    \cup {Inst("OP_LOAD_CONST_FLOAT", r, 0, 0, 0) : r \in {0, -1}}
    \cup {Inst("OP_LOAD_CONST_STR", r, 0, 0, 0) : r \in {1, 16}}
    \cup {Inst(op, rd, 0, 0, 0) :
              op \in {"OP_ADD", "OP_SUB", "OP_MUL", "OP_DIV", "OP_EQ", "OP_NEQ"},
              rd \in {1, 16}}
    \cup {Inst("OP_MOVE", 1, src, 0, 0) : src \in {0, 16}}
    \cup {Inst("OP_JUMP", t, 0, 0, 0) : t \in {-1, 0, MaxProgLenAll}}
    \cup {Inst("OP_JUMP_IF_ZERO", 0, r, 0, 0) : r \in {0, 16}}
    \cup {Inst("OP_CALL", t, 0, 0, 0) : t \in {-1, 0, 1}}
    \cup {Inst("OP_CALL_NATIVE", dest, cp, 1, 0) : dest \in {1, 16}, cp \in {0, 1}}
    \cup {Inst("OP_NEWOBJ", rd, 0, 0, 0) : rd \in {0, 16}}
    \cup {Inst("OP_SETPROP", 0, rk, 1, 0) : rk \in {1, 16}}
    \cup {Inst("OP_GETPROP", rd, 0, 1, 0) : rd \in {1, 16}}
    \cup {Inst("OP_CORO_INIT", i, 0, 0, 0) : i \in {-1, 0, MAX_COROUTINES}}
    \cup {Inst("OP_CORO_RESUME", i, 0, 0, 0) : i \in {0, 1, MAX_COROUTINES}}

Init == InitVM(1 .. MaxProgLenAll, NativePool)
Next ==
    \/ HostRegisterNative({<<"abs", "osfl_abs">>})
    \/ HostRun
    \/ VmRunStep(AllInstrs, MaxDepth)
    \/ VmRunReturn
    \/ HostRelease
    \/ HostDestroy
Spec == Init /\ [][Next]_vars

\* C7: once running is false, vm_run executes no further instruction: a
\* step of vm_run leaves pc, the registers, the call stack, the object pool
\* and the coroutine table as they are, and fetches nothing.
C7_HaltAbsorbing ==
    [][(phase = "vm_run" /\ ~running)
       => UNCHANGED <<code, pc, registers, call_stack, return_addresses,
                      objects, heap, coroutines, current_coro>>]_vars

\* vm_run is at its loop condition with the VM stopped and an instruction
\* at pc that was never fetched.
C7_Witness ==
    /\ phase = "vm_run"
    /\ ~running
    /\ pc < instruction_count
    /\ code[pc] = NoInstr


(***************************************************************************)
(* SpecRegistry: the host fills the native registry.  It registers a fresh *)
(* name, registers one of the first two names again with either function,  *)
(* or passes a NULL name or function.                                      *)
(***************************************************************************)
NativeName(i) == "native" \o ToString(i)

RegistryInputs ==
    {<<NativeName(native_count + 1), "osfl_abs">>}
    \cup {<<NativeName(i), f>> : i \in {1, 2}, f \in {"osfl_abs", "osfl_bool"}}
    \cup {<<NULL_STR, "osfl_abs">>, <<NativeName(1), NULL_STR>>}

InitRegistry == InitVM({1}, <<>>)
NextRegistry == HostRegisterNative(RegistryInputs)
SpecRegistry == InitRegistry /\ [][NextRegistry]_vars

\* C8: vm_register_native(name, func) for a name that is in the registry
\* replaces that entry's function in place, returns true and leaves
\* native_count unchanged, also when the registry holds 64 entries.
C8_ReregisterReplaces ==
    [][\A in \in RegistryInputs :
          (/\ vm_register_native(in[1], in[2])
           /\ in[2] # NULL_STR
           /\ RegistryIndex(in[1]) # 0)
          => (/\ ret' = RetBool(TRUE)
              /\ Len(native_registry') = native_count
              /\ native_registry'[RegistryIndex(in[1])].func = in[2])]_vars

(***************************************************************************)
(* SpecObj: the host creates, retains and releases objects, runs a program *)
(* of NEWOBJ instructions and destroys the VM.                             *)
(***************************************************************************)
ObjInstrs ==
    {Inst("OP_NEWOBJ", rd, 0, 0, 0) : rd \in {0, 1, 16}}
    \cup {Inst("OP_HALT", 0, 0, 0, 0)}

InitObj == InitVM(1 .. MaxProgLen, <<>>)
NextObj ==
    \/ HostCreateObject
    \/ HostRetain
    \/ HostRelease
    \/ HostDestroy
    \/ HostRun
    \/ VmRunStep(ObjInstrs, MaxDepth)
    \/ VmRunReturn
SpecObj == InitObj /\ [][NextObj]_vars

\* C9: after any sequence of NEWOBJ, vm_retain_object and vm_release_object
\* every object's refcount is >= 0: that of every live object, and the one
\* vm_release_object left in an object it destroyed.
C9_RefcountNonNegative ==
    /\ \A h \in DOMAIN heap : heap[h].refcount >= 0
    /\ \A i \in 1 .. Len(destroyed) : destroyed[i].refcount >= 0

\* An object made by NEWOBJ was destroyed by vm_release_object while
\* another object holds two references.
C9_Witness ==
    /\ \E i \in 1 .. Len(destroyed) : destroyed[i].by = "vm_release_object"
    /\ \E r \in Regs : registers[r].type = "VAL_OBJ"
    /\ \E h \in DOMAIN heap : heap[h].refcount = 2

\* C10 as claimed: an object is destroyed only at a moment when its
\* refcount is exactly zero, by vm_release_object and by vm_destroy alike.
C10_DestroyedAtZero ==
    \A i \in 1 .. Len(destroyed) : destroyed[i].refcount = 0

\* C10 as amended: vm_release_object destroys an object only at a moment
\* when its refcount is exactly zero; vm_destroy destroys every object that
\* is still in the pool, whose refcount is then at least 1.
C10_ReleaseDestroysAtZero ==
    \A i \in 1 .. Len(destroyed) :
        /\ destroyed[i].by = "vm_release_object" => destroyed[i].refcount = 0
        /\ destroyed[i].by = "vm_destroy" => destroyed[i].refcount >= 1

\* One object was destroyed by vm_release_object and another by vm_destroy
\* after it had been retained.
C10_Witness ==
    /\ \E i \in 1 .. Len(destroyed) : destroyed[i].by = "vm_release_object"
    /\ \E i \in 1 .. Len(destroyed) :
           destroyed[i].by = "vm_destroy" /\ destroyed[i].refcount = 2


(***************************************************************************)
(* SpecProps: a program creates an object and sets and gets properties     *)
(* with Int keys; after the run the host sets properties by name.          *)
(***************************************************************************)
PropInts == {1, 10}
PropKeys == {IntToKey(n) : n \in PropInts}
PropVals == {IntValue(2)}

\* The host's vm_set_property(vm, obj, key, val) on a live object.
HostSetPropertyCall(obj, key, val) ==
    /\ phase = "done"
    /\ obj \in DOMAIN heap
    /\ KeyIndex(heap[obj], key) = 0 => Len(heap[obj].keys) < MaxProps
    /\ heap' = [heap EXCEPT ![obj] = vm_set_property(heap[obj], key, val)]
    /\ ret' = RetBool(TRUE)
    /\ UNCHANGED <<host, lexer, lexed, ast, compiled, instruction_count, constant_pool, native_registry, phase, vmState,
                   objects, object_capacity, destroyed>>

HostSetProperty ==
    \E obj \in DOMAIN heap, key \in PropKeys, val \in PropVals :
        HostSetPropertyCall(obj, key, val)

PropInstrs ==
    {Inst("OP_NEWOBJ", 0, 0, 0, 0), Inst("OP_HALT", 0, 0, 0, 0)}
    \cup {Inst("OP_LOAD_CONST", 1, 1, 0, 0)}
    \cup {Inst("OP_SETPROP", ro, 1, rv, 0) : ro \in {0, 16}, rv \in {0, 1}}
    \cup {Inst("OP_GETPROP", 3, 0, 1, 0)}

InitProps == InitVM(1 .. MaxPropProgLen, <<>>)
NextProps ==
    \/ HostRun
    \/ VmRunStep(PropInstrs, MaxDepth)
    \/ VmRunReturn
    \/ HostSetProperty
SpecProps == InitProps /\ [][NextProps]_vars

\* What set_property(obj, key, val) leaves behind.
SetPropertyPost(obj, key, val) ==
    /\ vm_get_property(heap'[obj], key) = val
    /\ \A k2 \in PropKeys \ {key} :
           vm_get_property(heap'[obj], k2) = vm_get_property(heap[obj], k2)
    /\ Len(heap'[obj].keys) =
           Len(heap[obj].keys)
           + (IF \E i \in 1 .. Len(heap[obj].keys) : heap[obj].keys[i] = key THEN 0 ELSE 1)
    /\ \E i \in 1 .. Len(objects') : objects'[i] = obj
    /\ heap'[obj].refcount >= 1

\* The step is a SETPROP that went through.
SetPropStep ==
    /\ Executing
    /\ Executed.opcode = "OP_SETPROP"
    /\ running'

\* C11: after set_property(o, k, v), get_property(o, k) = v, every other
\* key reads as before, the property count grows by one exactly when k was
\* absent, and o stays in the pool with refcount >= 1; and a GETPROP right
\* after a SETPROP with the same object and Int key registers leaves in its
\* destination the value that was set.
C11_SetThenGet ==
    /\ [][/\ SetPropStep =>
                SetPropertyPost(registers[Executed.operand1].val,
                                IntToKey(registers[Executed.operand2].val),
                                registers[Executed.operand3])
          /\ \A obj \in DOMAIN heap, key \in PropKeys, val \in PropVals :
                HostSetPropertyCall(obj, key, val) => SetPropertyPost(obj, key, val)]_vars
    /\ [](\A p \in 2 .. instruction_count :
            (/\ pc = p
             /\ running
             /\ code[p - 2].opcode = "OP_SETPROP"
             /\ code[p - 1].opcode = "OP_GETPROP"
             /\ code[p - 1].operand2 = code[p - 2].operand1
             /\ code[p - 1].operand3 = code[p - 2].operand2)
            => registers[code[p - 1].operand1] = registers[code[p - 2].operand3])

\* NEWOBJ R0; LOAD_CONST R1, 1; SETPROP R0, R1, R1; GETPROP R3, R0, R1 ran,
\* and the host then gave the object a second property.
C11_Witness ==
    /\ phase = "done"
    /\ pc = 4
    /\ code[2] = Inst("OP_SETPROP", 0, 1, 1, 0)
    /\ code[3] = Inst("OP_GETPROP", 3, 0, 1, 0)
    /\ registers[3] = IntValue(1)
    /\ \E h \in DOMAIN heap : Len(heap[h].keys) = 2


(***************************************************************************)
(* SpecCoro: the host creates coroutines, then runs a program that creates *)
(* more, switches between them and loads constants.                        *)
(***************************************************************************)
ActiveCount == Cardinality({i \in 0 .. MAX_COROUTINES - 1 : coroutines[i].active})

\* The host's vm_create_coroutine(vm).
HostCreateCoroutine ==
    /\ phase = "setup"
    /\ ActiveCount < MaxHostCoros
    /\ coroutines' = vm_create_coroutine(coroutines)
    /\ ret' = RetSize(IF FirstInactive(coroutines) < MAX_COROUTINES
                      THEN FirstInactive(coroutines) ELSE 0)
    /\ UNCHANGED <<host, lexer, lexed, ast, compiled, code, instruction_count, constant_pool, native_registry, phase,
                   pc, running, registers, stackVars, objVars, current_coro,
                   regs_at_yield, native_calls, args_read>>

CoroInstrs ==
    {Inst("OP_CORO_INIT", i, 0, 0, 0) : i \in {0, 1, MAX_COROUTINES}}
    \cup {Inst("OP_CORO_YIELD", 0, 0, 0, 0)}
    \cup {Inst("OP_CORO_RESUME", i, 0, 0, 0) : i \in {0, 1, 2, MAX_COROUTINES, -1}}
    \cup {Inst("OP_LOAD_CONST", 0, 1, 0, 0), Inst("OP_HALT", 0, 0, 0, 0)}

InitCoro == InitVM(1 .. MaxProgLen, <<>>)
NextCoro ==
    \/ HostCreateCoroutine
    \/ HostRun
    \/ VmRunStep(CoroInstrs, MaxDepth)
    \/ VmRunReturn
SpecCoro == InitCoro /\ [][NextCoro]_vars

\* C12: after CORO_INIT with op1 = i, 0 <= i < 64, went through, slot i is
\* the slot that was allocated: it is active and no other slot has changed.
C12_InitAllocatesSlotOp1 ==
    [][(/\ Executing
        /\ Executed.opcode = "OP_CORO_INIT"
        /\ running')
       => LET i == Executed.operand1
          IN  /\ coroutines'[i].active
              /\ \A j \in 0 .. MAX_COROUTINES - 1 :
                     j # i => coroutines'[j] = coroutines[j]]_vars

\* The step is a CORO_RESUME of the slot idx.
ResumeStep == Executing /\ Executed.opcode = "OP_CORO_RESUME"
ResumeIdx == ToSizeT(Executed.operand1)

\* C13: CORO_RESUME of an active slot i saves the pc of the resuming
\* coroutine in its own slot and changes no other slot, makes i the current
\* coroutine and goes on after slot i's saved pc; CORO_RESUME of an inactive
\* slot or of i >= 64 leaves the current coroutine and every slot as they
\* are.
C13_ResumeForcesSlot ==
    [][ResumeStep =>
          IF ResumeIdx < MAX_COROUTINES /\ coroutines[ResumeIdx].active
          THEN /\ coroutines' = [coroutines EXCEPT ![current_coro].pc = pc]
               /\ current_coro' = ResumeIdx
               /\ pc' = coroutines'[ResumeIdx].pc + 1
          ELSE /\ coroutines' = coroutines
               /\ current_coro' = current_coro
               /\ pc' = pc + 1]_vars

\* Slot 0 has resumed slot 2 at pc 1 while slot 1, the one round-robin
\* order would have chosen, is active.
C13_Witness ==
    /\ current_coro = 2
    /\ pc = 1
    /\ code[1] = Inst("OP_CORO_RESUME", 2, 0, 0, 0)
    /\ coroutines[0].pc = 1
    /\ coroutines[1].active
    /\ regs_at_yield[0] # <<>>

\* The step gives control to another coroutine, or back to the same one.
SwitchStep ==
    /\ Executing
    /\ \/ Executed.opcode = "OP_CORO_YIELD" /\ coroutines[current_coro].active
       \/ /\ Executed.opcode = "OP_CORO_RESUME"
          /\ ResumeIdx < MAX_COROUTINES
          /\ coroutines[ResumeIdx].active

\* C14: when control comes to a coroutine that gave up control before, each
\* of the 16 registers holds the value it had when that coroutine gave up
\* control.
C14_RegistersSurvive ==
    [][(SwitchStep /\ regs_at_yield'[current_coro'] # <<>>)
       => registers' = regs_at_yield'[current_coro']]_vars

\* C15: in every reachable state the current coroutine index designates an
\* active slot (main execution is slot 0 from VM creation).
C15_CurrentIsActive ==
    coroutines[current_coro].active


(***************************************************************************)
(* The AST.  A node has a type, the member of the union its type uses, and *)
(* a next_sibling link.                                                    *)
(***************************************************************************)
Node(t, payload) == [type |-> t, as |-> payload, next_sibling |-> NoNode]

Literal(tok, v) == Node("AST_EXPR_LITERAL", [literal_type |-> tok, val |-> v])
Binary(op, l, r) == Node("AST_EXPR_BINARY", [op |-> op, left |-> l, right |-> r])
Unary(op, e) == Node("AST_EXPR_UNARY", [op |-> op, expr |-> e])
Identifier(name) == Node("AST_EXPR_IDENTIFIER", [name |-> name])
Call(callee, args) == Node("AST_EXPR_CALL", [callee |-> callee, args |-> args])
Interpolation(e) == Node("AST_EXPR_INTERPOLATION", [expr |-> e])
Frame(name, body) == Node("AST_NODE_FRAME", [frame_name |-> name, body_statements |-> body])
Block(stmts) == Node("AST_NODE_BLOCK", [statements |-> stmts])
VarDecl(name, init) == Node("AST_NODE_VAR_DECL", [var_name |-> name, initializer |-> init])
ExprStmt(e) == Node("AST_NODE_EXPR_STMT", [expr |-> e])
If(c, t, e) == Node("AST_NODE_IF", [condition |-> c, then_branch |-> t, else_branch |-> e])
While(c, b) == Node("AST_NODE_WHILE_STMT", [condition |-> c, body |-> b])
For(i, c, inc, b) ==
    Node("AST_NODE_FOR_STMT", [init |-> i, condition |-> c, increment |-> inc, body |-> b])
Return(e) == Node("AST_NODE_RETURN_STMT", [expr |-> e])
FuncDecl(name, params, body) ==
    Node("AST_NODE_FUNC_DECL", [func_name |-> name, param_names |-> params, body |-> body])
ClassDecl(name, members) ==
    Node("AST_NODE_CLASS_DECL", [class_name |-> name, members |-> members])

(***************************************************************************)
(* The compiler.  Its state is the Bytecode under construction and the     *)
(* globals of compiler.c: next_register, the function table and the scope  *)
(* chain (innermost scope last).  The remaining fields are history:        *)
(*   func_decls  each function declaration with the index of the first    *)
(*               instruction of its body,                                  *)
(*   open_funcs  the declarations whose body is being compiled,            *)
(*   unpatched   the jumps emitted with a placeholder target and not yet   *)
(*               patched,                                                  *)
(*   events      the declarations, identifier reads, returns and           *)
(*               interpolations in the order they were compiled.           *)
(***************************************************************************)
CompilerInit ==
    [code |-> <<>>, pool |-> <<>>, next_register |-> 0,
     function_table |-> <<>>, scopes |-> <<>>,
     func_decls |-> <<>>, open_funcs |-> <<>>, unpatched |-> {}, events |-> <<>>]

\* bytecode_add_instruction and bytecode_add_instruction_ex.
bytecode_add_instruction(st, op, a, b, c) ==
    [st EXCEPT !.code = Append(@, Inst(op, a, b, c, 0))]
bytecode_add_instruction_ex(st, op, a, b, c, d) ==
    [st EXCEPT !.code = Append(@, Inst(op, a, b, c, d))]

\* bc->instruction_count.
Count(st) == Len(st.code)

\* The constant is appended; its index is the old count.
bytecode_add_constant_str(st, str) == [st EXCEPT !.pool = Append(@, str)]

add_function_entry(st, name, address) ==
    [st EXCEPT !.function_table = Append(@, [name |-> name, address |-> address])]

\* The address of the first entry with the name, -1 without one.
lookup_function_address(st, name) ==
    LET hits == {i \in 1 .. Len(st.function_table) : st.function_table[i].name = name}
    IN  IF hits = {} THEN -1
        ELSE st.function_table[CHOOSE i \in hits : \A j \in hits : i <= j].address

\* A name that is already in the scope is rejected.
scope_add_symbol(scope, name, reg) ==
    IF \E i \in 1 .. Len(scope) : scope[i].name = name THEN scope
    ELSE Append(scope, [name |-> name, reg |-> reg])

\* The symbol of the innermost scope that has the name; found is FALSE
\* when no scope of the chain has it.
RECURSIVE scope_lookup(_, _)
scope_lookup(scopes, name) ==
    IF scopes = <<>> THEN [found |-> FALSE, reg |-> -1]
    ELSE LET scope == scopes[Len(scopes)]
             hits == {i \in 1 .. Len(scope) : scope[i].name = name}
         IN  IF hits # {}
             THEN [found |-> TRUE,
                   reg |-> scope[CHOOSE i \in hits : \A j \in hits : i <= j].reg]
             ELSE scope_lookup(SubSeq(scopes, 1, Len(scopes) - 1), name)

\* The function declaration whose body is being compiled, 0 outside all.
CurrentFunc(st) == IF st.open_funcs = <<>> THEN 0 ELSE st.open_funcs[Len(st.open_funcs)]

Log(st, kind, name, reg, fresh, at) ==
    [st EXCEPT !.events = Append(@, [kind |-> kind, name |-> name, reg |-> reg,
                                     fresh |-> fresh, at |-> at, func |-> CurrentFunc(st)])]

\* "int r = next_register++".
AllocRegister(st) == [st EXCEPT !.next_register = @ + 1]


\* The opcode a binary operator compiles to; the other operators emit
\* nothing.
BinaryOpcode(op) ==
    CASE op = "TOKEN_PLUS" -> "OP_ADD"
      [] op = "TOKEN_MINUS" -> "OP_SUB"
      [] op = "TOKEN_STAR" -> "OP_MUL"
      [] op = "TOKEN_SLASH" -> "OP_DIV"
      [] op = "TOKEN_EQ" -> "OP_EQ"
      [] op = "TOKEN_NEQ" -> "OP_NEQ"
      [] OTHER -> "none"

\* A jump emitted with target 0, to be patched once its target is known.
Placeholder(st, op, reg) ==
    [bytecode_add_instruction(st, op, 0, reg, 0) EXCEPT !.unpatched = @ \cup {Count(st)}]

\* A patch that writes the index after the target.
Patch_OffByOne(st, index) ==
    [st EXCEPT !.code[index + 1].operand1 = Count(st) + 1,
               !.unpatched = @ \ {index}]

\* "bc->instructions[index].operand1 = (int)bc->instruction_count".
Patch(st, index) ==
    [st EXCEPT !.code[index + 1].operand1 = Count(st),
               !.unpatched = @ \ {index}]

\* The C statements run in order: the state st that one leaves is computed
\* before Rest, the statements after it, starts from it.
After(st, Rest(_)) == CHOOSE r \in {Rest(s) : s \in {st}} : TRUE

\* The result of compile_expression: the compiler's state and the register
\* returned.
Result(st, reg) == [st |-> st, reg |-> reg]

RECURSIVE compile_expression(_, _)

\* The arguments of a call compiled in order; regs are their registers.
RECURSIVE compile_args(_, _, _)
compile_args(args, st, regs) ==
    IF Len(regs) = Len(args) THEN [st |-> st, regs |-> regs]
    ELSE After(compile_expression(args[Len(regs) + 1], st),
               LAMBDA r : compile_args(args, r.st, Append(regs, r.reg)))

\* "OP_MOVE i, arg_regs[i]" for every argument from i on.
RECURSIVE MoveArgs(_, _, _)
MoveArgs(st, regs, i) ==
    IF i > Len(regs) THEN st
    ELSE MoveArgs(bytecode_add_instruction(st, "OP_MOVE", i - 1, regs[i], 0), regs, i + 1)

compile_literal(expr, st) ==
    LET r == st.next_register
        tok == expr.as.literal_type
        st1 == AllocRegister(st)
    IN  CASE tok = "TOKEN_INTEGER" ->
               Result(bytecode_add_instruction(st1, "OP_LOAD_CONST", r, expr.as.val, 0), r)
          [] tok = "TOKEN_FLOAT" ->
               Result(bytecode_add_instruction(st1, "OP_LOAD_CONST_FLOAT", r, 0, 0), r)
          [] tok \in {"TOKEN_STRING", "TOKEN_DOCSTRING", "TOKEN_REGEX"} ->
               Result(bytecode_add_instruction(st1, "OP_LOAD_CONST_STR", r, expr.as.val, 0), r)
          [] tok = "TOKEN_BOOL_TRUE" ->
               Result(bytecode_add_instruction(st1, "OP_LOAD_CONST", r, 1, 0), r)
          [] tok = "TOKEN_BOOL_FALSE" ->
               Result(bytecode_add_instruction(st1, "OP_LOAD_CONST", r, 0, 0), r)
          [] OTHER -> Result(st, -1)

compile_binary(expr, st) ==
    After(compile_expression(expr.as.left, st), LAMBDA left :
    After(compile_expression(expr.as.right, left.st), LAMBDA right :
        LET dest_reg == right.st.next_register
            st1 == AllocRegister(right.st)
            opcode == BinaryOpcode(expr.as.op)
        IN  IF opcode = "none" THEN Result(st1, dest_reg)
            ELSE Result(bytecode_add_instruction(st1, opcode, dest_reg, left.reg,
                                                 right.reg),
                        dest_reg)))

compile_unary(expr, st) ==
    LET operand == compile_expression(expr.as.expr, st)
        dest_reg == operand.st.next_register
        st1 == AllocRegister(operand.st)
    IN  IF expr.as.op = "TOKEN_MINUS"
        THEN Result(bytecode_add_instruction(
                        bytecode_add_instruction(st1, "OP_LOAD_CONST", dest_reg, 0, 0),
                        "OP_SUB", dest_reg, dest_reg, operand.reg),
                    dest_reg)
        ELSE Result(st1, operand.reg)

\* A name of the scope chain gives its register, a name of the function
\* table its address, and any other name a fresh register.
compile_identifier(expr, st) ==
    LET id == expr.as.name
        sym == scope_lookup(st.scopes, id)
        func_addr == lookup_function_address(st, id)
    IN  IF sym.found THEN Result(Log(st, "read", id, sym.reg, FALSE, Count(st)), sym.reg)
        ELSE IF func_addr < 0
        THEN Result(Log(AllocRegister(st), "read", id, st.next_register, TRUE, Count(st)),
                    st.next_register)
        ELSE Result(Log(st, "read", id, func_addr, FALSE, Count(st)), func_addr)

compile_call(expr, st) ==
    IF expr.as.callee.type # "AST_EXPR_IDENTIFIER" THEN Result(st, -1)
    ELSE LET func_name == expr.as.callee.as.name
             func_addr == lookup_function_address(st, func_name)
             arg_count == Len(expr.as.args)
             args == compile_args(expr.as.args, st, <<>>)
         IN  IF func_addr < 0
             THEN LET base_reg == args.st.next_register - arg_count
                      dest_reg == args.st.next_register
                      native_index == Len(args.st.pool)
                      st1 == bytecode_add_constant_str(AllocRegister(args.st), func_name)
                  IN  Result(bytecode_add_instruction_ex(st1, "OP_CALL_NATIVE", dest_reg,
                                                         native_index, arg_count, base_reg),
                             dest_reg)
             ELSE LET st1 == MoveArgs(args.st, args.regs, 1)
                      st2 == bytecode_add_instruction(st1, "OP_CALL", func_addr, 0, 0)
                  IN  Result(AllocRegister(st2), st2.next_register)

compile_interpolation(expr, st) ==
    LET inner == compile_expression(expr.as.expr, st)
        st1 == Log(inner.st, "interpolation", "str", inner.reg, FALSE, Count(inner.st))
        st2 == bytecode_add_instruction(st1, "OP_CALL",
                                        lookup_function_address(st1, "str"), 0, 0)
    IN  Result(AllocRegister(st2), st2.next_register)

compile_expression(expr, st) ==
    IF expr = NoNode THEN Result(st, -1)
    ELSE CASE expr.type = "AST_EXPR_LITERAL" -> compile_literal(expr, st)
           [] expr.type = "AST_EXPR_BINARY" -> compile_binary(expr, st)
           [] expr.type = "AST_EXPR_UNARY" -> compile_unary(expr, st)
           [] expr.type = "AST_EXPR_IDENTIFIER" -> compile_identifier(expr, st)
           [] expr.type = "AST_EXPR_CALL" -> compile_call(expr, st)
           [] expr.type = "AST_EXPR_INTERPOLATION" -> compile_interpolation(expr, st)
           [] OTHER -> Result(st, -1)

RECURSIVE compile_node(_, _)

\* The statements of a body compiled in order, from statement i on.
RECURSIVE compile_nodes(_, _, _)
compile_nodes(stmts, i, st) ==
    IF i > Len(stmts) THEN st
    ELSE After(compile_node(stmts[i], st), LAMBDA st1 : compile_nodes(stmts, i + 1, st1))

compile_frame(node, st) ==
    After(compile_nodes(node.as.body_statements, 1, st), LAMBDA st1 :
        LET main_addr == lookup_function_address(st1, "main")
        IN  IF node.as.frame_name = "Main" /\ main_addr >= 0
            THEN bytecode_add_instruction(
                     bytecode_add_instruction(st1, "OP_CALL", main_addr, 0, 0),
                     "OP_HALT", 0, 0, 0)
            ELSE st1)

\* The initializer's register is dropped: "(void)r".
compile_var_decl(node, st) ==
    IF node.as.initializer = NoNode THEN st
    ELSE LET r == compile_expression(node.as.initializer, st)
         IN  Log(r.st, "decl", node.as.var_name, r.reg, FALSE, Count(r.st))

compile_if(node, st) ==
    After(compile_expression(node.as.condition, st), LAMBDA cond :
    After(Placeholder(cond.st, "OP_JUMP_IF_ZERO", cond.reg), LAMBDA st1 :
    After(compile_node(node.as.then_branch, st1), LAMBDA st2 :
        LET jump_index == Count(cond.st)
            has_else == node.as.else_branch # NoNode
            else_jump_index == Count(st2)
            st3 == IF has_else THEN Placeholder(st2, "OP_JUMP", 0) ELSE st2
        IN  After(Patch(st3, jump_index), LAMBDA st4 :
                IF has_else
                THEN Patch(compile_node(node.as.else_branch, st4), else_jump_index)
                ELSE st4))))

compile_while(node, st) ==
    After(compile_expression(node.as.condition, st), LAMBDA cond :
    After(Placeholder(cond.st, "OP_JUMP_IF_ZERO", cond.reg), LAMBDA st1 :
    After(compile_node(node.as.body, st1), LAMBDA st2 :
        LET loop_start == Count(st)
            jump_index == Count(cond.st)
            st3 == bytecode_add_instruction(st2, "OP_JUMP", loop_start, 0, 0)
        IN  Patch(st3, jump_index))))

compile_for(node, st) ==
    After(compile_node(node.as.init, st), LAMBDA st0 :
    After(compile_expression(node.as.condition, st0), LAMBDA cond :
    After(Placeholder(cond.st, "OP_JUMP_IF_ZERO", cond.reg), LAMBDA st1 :
    After(compile_node(node.as.body, st1), LAMBDA st2 :
    After(compile_node(node.as.increment, st2), LAMBDA st3 :
        LET loop_start == Count(st0)
            jump_index == Count(cond.st)
            st4 == bytecode_add_instruction(st3, "OP_JUMP", loop_start, 0, 0)
        IN  Patch(st4, jump_index))))))

compile_return(node, st) ==
    LET r == compile_expression(node.as.expr, st)
    IN  bytecode_add_instruction(Log(r.st, "return", "", r.reg, FALSE, Count(r.st)),
                                 "OP_RET", 0, 0, 0)

\* The parameters of a function in a new scope, parameter i in register
\* i - 1.
RECURSIVE ParamScope(_, _, _)
ParamScope(params, i, scope) ==
    IF i > Len(params) THEN scope
    ELSE ParamScope(params, i + 1, scope_add_symbol(scope, params[i], i - 1))

compile_func_decl(node, st) ==
    LET func_address == Count(st)
        id == Len(st.func_decls) + 1
        st1 == [add_function_entry(st, node.as.func_name, func_address) EXCEPT
                   !.func_decls = Append(@, [name |-> node.as.func_name,
                                              start |-> func_address]),
                   !.open_funcs = Append(@, id),
                   !.scopes = Append(@, ParamScope(node.as.param_names, 1, <<>>)),
                   !.next_register = Len(node.as.param_names)]
    IN  After(st1, LAMBDA entered :
        After(compile_node(node.as.body, entered), LAMBDA body :
            [bytecode_add_instruction(body, "OP_RET", 0, 0, 0) EXCEPT
                !.scopes = st.scopes,
                !.open_funcs = st.open_funcs,
                !.next_register = st.next_register]))

compile_node(node, st) ==
    IF node = NoNode THEN st
    ELSE LET compiled_node ==
                 CASE node.type = "AST_NODE_FRAME" -> compile_frame(node, st)
                   [] node.type = "AST_NODE_BLOCK" ->
                        compile_nodes(node.as.statements, 1, st)
                   [] node.type = "AST_NODE_VAR_DECL" -> compile_var_decl(node, st)
                   [] node.type = "AST_NODE_EXPR_STMT" ->
                        compile_expression(node.as.expr, st).st
                   [] node.type = "AST_NODE_IF" -> compile_if(node, st)
                   [] node.type = "AST_NODE_WHILE_STMT" -> compile_while(node, st)
                   [] node.type = "AST_NODE_FOR_STMT" -> compile_for(node, st)
                   [] node.type = "AST_NODE_RETURN_STMT" -> compile_return(node, st)
                   [] node.type = "AST_NODE_FUNC_DECL" -> compile_func_decl(node, st)
                   [] node.type = "AST_NODE_CLASS_DECL" ->
                        compile_nodes(node.as.members, 1, st)
                   [] OTHER -> st
         IN  After(compiled_node, LAMBDA st1 : compile_node(node.next_sibling, st1))

\* The function table starts with the native "print" at address -1, and
\* the program ends with a HALT.
compiler_compile_ast(root) ==
    bytecode_add_instruction(
        compile_node(root, add_function_entry(CompilerInit, "print", -1)),
        "OP_HALT", 0, 0, 0)


(***************************************************************************)
(* The host, src/src/osfl/osfl.c: the parsed program is compiled, a VM is  *)
(* created for the bytecode, the native functions of the runtime are       *)
(* registered and the program is run.                                      *)
(***************************************************************************)
HostNativeNames ==
    <<"print", "split", "join", "substring", "replace", "to_upper", "to_lower", "len",
      "append", "pop", "insert", "remove", "sqrt", "pow", "sin", "cos", "tan", "log",
      "abs", "int", "float", "str", "bool", "open", "read", "write", "close", "exit",
      "time", "type", "range", "enumerate">>

HostCompile ==
    /\ phase = "parsed"
    /\ LET bc == compiler_compile_ast(ast)
       IN  /\ code' = [i \in 0 .. Count(bc) - 1 |-> bc.code[i + 1]]
           /\ instruction_count' = Count(bc)
           /\ constant_pool' = bc.pool
           /\ compiled' = [function_count |-> Len(bc.function_table),
                           function_table |-> bc.function_table,
                           next_register |-> bc.next_register,
                           func_decls |-> bc.func_decls,
                           unpatched |-> bc.unpatched,
                           events |-> bc.events]
    /\ native_registry' = [i \in 1 .. Len(HostNativeNames) |->
                              [name |-> HostNativeNames[i],
                               func |-> "osfl_" \o HostNativeNames[i]]]
    /\ host' = Acquire(Acquire(host, "bc"), "vm")
    /\ phase' = "setup"
    /\ UNCHANGED <<lexer, lexed, ast, pc, running, registers, stackVars, objVars, coroVars, ret,
                   call_sites, native_calls, args_read, destroyed>>

(***************************************************************************)
(* The programs that are compiled and run.                                 *)
(***************************************************************************)
IntLit(v) == Literal("TOKEN_INTEGER", v)
BoolLit(b) == Literal(IF b THEN "TOKEN_BOOL_TRUE" ELSE "TOKEN_BOOL_FALSE", 0)

\* parse_program: the root is a block of the top-level items.
Program(items) == Block(items)

\* Two function declarations, in one frame or in two.
FuncNames == {"main", "print", "f"}
TwoFuncs(n1, n2, oneFrame) ==
    LET f1 == FuncDecl(n1, <<>>, Block(<<Return(IntLit(1))>>))
        f2 == FuncDecl(n2, <<>>, Block(<<Return(IntLit(2))>>))
    IN  IF oneFrame THEN Program(<<Frame("Main", <<f1, f2>>)>>)
        ELSE Program(<<Frame("Lib", <<f1>>), Frame("Main", <<f2>>)>>)
FuncPrograms == {TwoFuncs(n1, n2, b) : n1 \in FuncNames, n2 \in FuncNames, b \in BOOLEAN}

\* The statements built from if, if/else, while and for nested at most d
\* deep, with the condition c.
RECURSIVE Stmt(_, _)
Stmt(d, c) ==
    IF d = 0 THEN {ExprStmt(IntLit(1))}
    ELSE LET S == Stmt(d - 1, c)
         IN  S \cup {If(BoolLit(c), s, NoNode) : s \in S}
               \cup {If(BoolLit(c), s, t) : s \in S, t \in S}
               \cup {While(BoolLit(c), s) : s \in S}
               \cup {For(IntLit(0), BoolLit(c), IntLit(1), s) : s \in S}
ControlPrograms == {Program(<<s>>) : s \in Stmt(MaxNest, TRUE) \cup Stmt(MaxNest, FALSE)}

\* frame Main { func main() { var a = x; var b = y; return a + b; } }
SumInts == 0 .. MaxInt \cup {10, 20}
SumProgram(x, y) ==
    Program(<<Frame("Main", <<FuncDecl("main", <<>>,
        Block(<<VarDecl("a", IntLit(x)), VarDecl("b", IntLit(y)),
                Return(Binary("TOKEN_PLUS", Identifier("a"), Identifier("b")))>>))>>)>>)
SumPrograms == {SumProgram(x, y) : x \in SumInts, y \in SumInts}

\* var x = v; x;  at the top level and in a function.
DeclProgram(v, inFunc) ==
    LET body == <<VarDecl("x", IntLit(v)), ExprStmt(Identifier("x"))>>
    IN  IF inFunc THEN Program(<<Frame("Main", <<FuncDecl("main", <<>>, Block(body))>>)>>)
        ELSE Program(body)
DeclPrograms == {DeclProgram(v, b) : v \in 0 .. MaxInt, b \in BOOLEAN}

\* An interpolation of an integer, alone and after a declaration of a
\* function str.
InterpProgram(v, withStr) ==
    LET stmt == ExprStmt(Interpolation(IntLit(v)))
    IN  IF withStr
        THEN Program(<<FuncDecl("str", <<"s">>, Block(<<Return(Identifier("s"))>>)), stmt>>)
        ELSE Program(<<stmt>>)
InterpPrograms == {InterpProgram(v, b) : v \in 0 .. MaxInt, b \in BOOLEAN}

\* A string, docstring or regex literal as a statement; str_val is the
\* address of the literal's text.
StrAddrs == 1 .. MaxInt
StrTokens == {"TOKEN_STRING", "TOKEN_DOCSTRING", "TOKEN_REGEX"}
StrPrograms == {Program(<<ExprStmt(Literal(tok, ptr))>>) : tok \in StrTokens, ptr \in StrAddrs}

\* func f(a, b) { g(e1); } and func f(a, b) { g(e1, e2); } where g is f
\* itself or the native print, and each argument is a literal, the sum
\* 1 + 2 or one of the parameters.
ArgExprs ==
    {IntLit(1), IntLit(2), Binary("TOKEN_PLUS", IntLit(1), IntLit(2)), Identifier("a"),
     Identifier("b")}
ArgLists == {<<x>> : x \in ArgExprs} \cup {<<x, y>> : x \in ArgExprs, y \in ArgExprs}
ArgProgram(g, args) ==
    Program(<<FuncDecl("f", <<"a", "b">>, Block(<<ExprStmt(Call(Identifier(g), args))>>))>>)
CallPrograms == {ArgProgram("f", args) : args \in ArgLists}
NativePrograms == {ArgProgram("print", args) : args \in ArgLists}

\* 1; 1; ... 1;  with n statements.
LongProgram(n) == Program([i \in 1 .. n |-> ExprStmt(IntLit(1))])
LongPrograms == {LongProgram(n) : n \in NUM_REGISTERS .. MaxStmts}

Programs == FuncPrograms \cup ControlPrograms \cup SumPrograms \cup DeclPrograms
              \cup InterpPrograms \cup StrPrograms \cup CallPrograms \cup NativePrograms
              \cup LongPrograms

InitCompile ==
    /\ lexer = NoLexer
    /\ lexed = NoLexed
    /\ ast \in Programs
    /\ compiled = NoCompile
    /\ instruction_count = 0
    /\ code = [i \in 0 .. -1 |-> NoInstr]
    /\ constant_pool = <<>>
    /\ pc = 0
    /\ running = TRUE
    /\ registers = [r \in Regs |-> NullValue]
    /\ call_stack = <<>>
    /\ return_addresses = <<>>
    /\ objects = <<>>
    /\ object_capacity = 0
    /\ heap = <<>>
    /\ coroutines = [i \in 0 .. MAX_COROUTINES - 1 |-> [active |-> FALSE, pc |-> 0]]
    /\ current_coro = 0
    /\ regs_at_yield = [i \in 0 .. MAX_COROUTINES - 1 |-> <<>>]
    /\ native_registry = <<>>
    /\ phase = "parsed"
    /\ ret = RetVoid
    /\ host = HostParsed
    /\ call_sites = <<>>
    /\ native_calls = <<>>
    /\ args_read = {}
    /\ destroyed = <<>>

NextCompile ==
    \/ HostCompile
    \/ HostRun
    \/ VmRunStep({code[pc]}, MaxDepth)
    \/ VmRunReturn

SpecCompile == InitCompile /\ [][NextCompile]_vars

\* The state is that of a compiled program.
Compiled == phase # "parsed"


\* C16: after compilation, resolving the name of every function declaration
\* through the function table yields the index of the first instruction of
\* that declaration's body.
C16_TableResolvesEveryDecl ==
    Compiled =>
        \A i \in 1 .. Len(compiled.func_decls) :
            lookup_function_address(compiled, compiled.func_decls[i].name)
                = compiled.func_decls[i].start

\* The jumps of the compiled program.
Jumps == {i \in 0 .. instruction_count - 1 : code[i].opcode \in {"OP_JUMP", "OP_JUMP_IF_ZERO"}}

\* C17: in the bytecode the compiler returns for a program of nested if,
\* if/else, while and for statements, no placeholder is left unpatched and
\* every JUMP and JUMP_IF_ZERO has a target t with 0 <= t < instruction_count.
C17_JumpTargetsInRange ==
    Compiled =>
        /\ compiled.unpatched = {}
        /\ \A i \in Jumps : 0 <= code[i].operand1 /\ code[i].operand1 < instruction_count

\* if (c) { if (c) 1 else 1 } else { while (c) 1 } was compiled: its three
\* conditional jumps and two forward jumps are patched, and the loop jumps
\* back.
C17_Witness ==
    /\ Compiled
    /\ \E c \in BOOLEAN :
           ast = Program(<<If(BoolLit(c),
                              If(BoolLit(c), ExprStmt(IntLit(1)), ExprStmt(IntLit(1))),
                              While(BoolLit(c), ExprStmt(IntLit(1))))>>)
    /\ Cardinality({i \in Jumps : code[i].opcode = "OP_JUMP_IF_ZERO"}) = 3
    /\ Cardinality({i \in Jumps : code[i].opcode = "OP_JUMP" /\ code[i].operand1 > i}) = 2
    /\ \E i \in Jumps : code[i].opcode = "OP_JUMP" /\ code[i].operand1 < i
    /\ \E i \in Jumps : code[i].operand1 = instruction_count - 1

\* The register the compiler returned for the expression of the return
\* statement of function number f.
ReturnReg(f) ==
    LET rets == {i \in 1 .. Len(compiled.events) :
                    compiled.events[i].kind = "return" /\ compiled.events[i].func = f}
    IN  compiled.events[CHOOSE i \in rets : TRUE].reg

\* C18: after  frame Main { func main() { var a = x; var b = y; return a + b; } }
\* was compiled and run, the register of main's return expression holds
\* Int(x + y).
C18_MainReturnsSum ==
    \A x \in SumInts, y \in SumInts :
        (phase = "done" /\ ast = SumProgram(x, y)) =>
            registers[ReturnReg(1)] = IntValue(x + y)

\* C19: a read of x compiled after a declaration  var x = e  of the same
\* scope uses the register that received e's value and allocates no fresh
\* register.
C19_ReadUsesBinding ==
    Compiled =>
        \A i \in 1 .. Len(compiled.events), j \in 1 .. Len(compiled.events) :
            LET decl == compiled.events[i]
                read == compiled.events[j]
            IN  (i < j /\ decl.kind = "decl" /\ read.kind = "read"
                    /\ read.name = decl.name /\ read.func = decl.func)
                    => (read.reg = decl.reg /\ ~read.fresh)

\* C20: the instruction emitted for an interpolation, after the code of the
\* inner expression, is a CALL_NATIVE of "str" whose one argument is the
\* register of the inner expression.
C20_InterpolationCallsNativeStr ==
    Compiled =>
        \A i \in 1 .. Len(compiled.events) :
            compiled.events[i].kind = "interpolation" =>
                LET inst == code[compiled.events[i].at]
                IN  /\ inst.opcode = "OP_CALL_NATIVE"
                    /\ constant_pool[inst.operand2 + 1] = "str"
                    /\ inst.operand3 = 1
                    /\ inst.operand4 = compiled.events[i].reg


\* C21: op2 of every LOAD_CONST_STR the compiler emits is an index into
\* the constant pool, 0 <= op2 < constant_pool.count.
C21_StrOperandIsPoolIndex ==
    Compiled =>
        \A i \in 0 .. instruction_count - 1 :
            code[i].opcode = "OP_LOAD_CONST_STR" =>
                (0 <= code[i].operand2 /\ code[i].operand2 < Len(constant_pool))


(***************************************************************************)
(* The lexer, src/src/lexer/lexer.c.  A byte is a string of one character, *)
(* NUL the byte 0; the source and every text are sequences of bytes.  The  *)
(* Lexer is a record of the fields of struct Lexer; string_buffer is the   *)
(* bytes before its terminating 0, and the error is its type and location  *)
(* (the message is left out).  A scanning function returns the Lexer it    *)
(* leaves and the Token it returns.                                        *)
(***************************************************************************)
LEXER_MAX_STRING_LENGTH == 64
TOKEN_TEXT_SIZE == 64
NUL == "NUL"

\* source[i] for i < length, and the 0 the lexer uses beyond.
ByteAt(source, i) == IF i < Len(source) THEN source[i + 1] ELSE NUL

LexerError(type, line, column) == [type |-> type, line |-> line, column |-> column]

lexer_default_config == [track_line_endings |-> TRUE, include_comments |-> FALSE]

lexer_create(source, config) ==
    [source |-> source, length |-> Len(source), position |-> 0, line |-> 1, column |-> 1,
     current |-> ByteAt(source, 0), peek |-> ByteAt(source, 1),
     error |-> LexerError("LEXER_ERROR_NONE", 1, 1),
     config |-> config, string_buffer |-> <<>>]

is_at_end(lx) == lx.position >= lx.length

\* An advance that never starts a new line.
advance_NoNewLine(lx) ==
    IF is_at_end(lx) THEN lx
    ELSE [lx EXCEPT !.position = @ + 1,
                    !.current = ByteAt(lx.source, lx.position + 1),
                    !.peek = ByteAt(lx.source, lx.position + 2),
                    !.column = @ + 1]

advance(lx) ==
    IF is_at_end(lx) THEN lx
    ELSE LET newline == lx.source[lx.position + 1] = "\n"
         IN  [lx EXCEPT !.position = @ + 1,
                        !.current = ByteAt(lx.source, lx.position + 1),
                        !.peek = ByteAt(lx.source, lx.position + 2),
                        !.line = IF newline THEN @ + 1 ELSE @,
                        !.column = IF newline THEN 1 ELSE @ + 1]

set_error(lx, type) == [lx EXCEPT !.error = LexerError(type, lx.line, lx.column)]
clear_error(lx) == set_error(lx, "LEXER_ERROR_NONE")

\* The members of the TokenValue union, each 0 until it is written.
NoValue == [int_value |-> 0, data |-> <<>>, length |-> 0]
StringValue(buffer) == [int_value |-> 0, data |-> buffer, length |-> Len(buffer)]
IntTokenValue(n) == [int_value |-> n, data |-> <<>>, length |-> 0]

\* memset(&token, 0, sizeof(Token)).
ZeroToken == [type |-> "0", text |-> <<>>, value |-> NoValue, line |-> 0, column |-> 0]

\* A zeroed token with the lexer's location.
TokenAt(lx) == [ZeroToken EXCEPT !.line = lx.line, !.column = lx.column]

\* strncpy_s(token.text, sizeof(token.text), buffer, sizeof(token.text) - 1).
CopyText(buffer) ==
    SubSeq(buffer, 1, IF Len(buffer) < TOKEN_TEXT_SIZE - 1 THEN Len(buffer)
                      ELSE TOKEN_TEXT_SIZE - 1)

Scanned(lx, token) == [lx |-> lx, token |-> token]

\* The token's text and string value are the string buffer.
BufferToken(lx, token) ==
    Scanned(lx, [token EXCEPT !.text = CopyText(lx.string_buffer),
                              !.value = StringValue(lx.string_buffer)])

ErrorToken(lx, token) == Scanned(lx, [token EXCEPT !.type = "TOKEN_ERROR"])

\* The length the scanning functions keep is that of the string buffer.
safe_append_char(lx, c) ==
    IF Len(lx.string_buffer) < LEXER_MAX_STRING_LENGTH - 1
    THEN [lx EXCEPT !.string_buffer = Append(@, c)]
    ELSE set_error(lx, "LEXER_ERROR_BUFFER_OVERFLOW")

RECURSIVE skip_whitespace(_)
skip_whitespace(lx) ==
    IF ~is_at_end(lx) /\ lx.current \in {" ", "\r", "\t"}
    THEN skip_whitespace(advance(lx))
    ELSE lx

\* "while (!is_at_end(lexer) && lexer->current != '\n') advance(lexer)".
RECURSIVE SkipLine(_)
SkipLine(lx) ==
    IF ~is_at_end(lx) /\ lx.current # "\n" THEN SkipLine(advance(lx)) ELSE lx

\* The body of a multi-line comment; closed says that its end was found.
RECURSIVE SkipBlock(_)
SkipBlock(lx) ==
    IF is_at_end(lx) THEN [lx |-> lx, closed |-> FALSE]
    ELSE IF lx.current = "*" /\ lx.peek = "/"
    THEN [lx |-> advance(advance(lx)), closed |-> TRUE]
    ELSE SkipBlock(advance(lx))

RECURSIVE skip_comments(_)
skip_comments(lx) ==
    IF is_at_end(lx) THEN lx
    ELSE IF lx.current = "/" /\ lx.peek = "/"
    THEN IF lx.config.include_comments THEN lx
         ELSE skip_comments(skip_whitespace(SkipLine(lx)))
    ELSE IF lx.current = "/" /\ lx.peek = "*"
    THEN IF lx.config.include_comments THEN lx
         ELSE LET body == SkipBlock(advance(advance(lx)))
              IN  skip_comments(skip_whitespace(
                      IF body.closed THEN body.lx
                      ELSE set_error(body.lx, "LEXER_ERROR_UNTERMINATED_COMMENT")))
    ELSE lx


LowerCase ==
    {"a", "b", "c", "d", "e", "f", "g", "h", "i", "j", "k", "l", "m", "n", "o", "p", "q",
     "r", "s", "t", "u", "v", "w", "x", "y", "z"}
UpperCase ==
    {"A", "B", "C", "D", "E", "F", "G", "H", "I", "J", "K", "L", "M", "N", "O", "P", "Q",
     "R", "S", "T", "U", "V", "W", "X", "Y", "Z"}
HexDigits == <<"0", "1", "2", "3", "4", "5", "6", "7", "8", "9", "a", "b", "c", "d", "e", "f">>
HexUpper == <<"0", "1", "2", "3", "4", "5", "6", "7", "8", "9", "A", "B", "C", "D", "E", "F">>

is_digit_10(c) == \E i \in 1 .. 10 : HexDigits[i] = c
is_hex_digit(c) == \E i \in 1 .. 16 : HexDigits[i] = c \/ HexUpper[i] = c
is_alpha_ascii(c) == c \in LowerCase \cup UpperCase
\* The bytes from 128 on are not among the bytes of the sources.
is_valid_identifier_start(c) == is_alpha_ascii(c) \/ c = "_"
is_valid_identifier_char(c) == is_alpha_ascii(c) \/ is_digit_10(c) \/ c = "_"

DigitValue(c) == (CHOOSE i \in 1 .. 16 : HexDigits[i] = c \/ HexUpper[i] = c) - 1

\* strtoll and atoll: the value of the longest prefix of digits of the base.
RECURSIVE ParseDigits(_, _, _)
ParseDigits(buffer, base, acc) ==
    IF buffer = <<>> \/ ~is_hex_digit(Head(buffer)) THEN acc
    ELSE IF DigitValue(Head(buffer)) >= base THEN acc
    ELSE ParseDigits(Tail(buffer), base, acc * base + DigitValue(Head(buffer)))

\* strtoll skips "0x" for base 16; for the bases 2 and 8 the "b" or "o"
\* after the 0 ends the number.
strtoll(buffer, base) ==
    IF base = 16 /\ Len(buffer) >= 2 /\ buffer[2] \in {"x", "X"}
    THEN ParseDigits(SubSeq(buffer, 3, Len(buffer)), 16, 0)
    ELSE ParseDigits(buffer, base, 0)

three_quotes(lx) ==
    /\ lx.current = "\""
    /\ lx.peek = "\""
    /\ lx.position + 2 < lx.length
    /\ lx.source[lx.position + 3] = "\""

RECURSIVE DocstringLoop(_, _)
DocstringLoop(lx, token) ==
    IF is_at_end(lx) THEN BufferToken(lx, token)
    ELSE IF three_quotes(lx) THEN BufferToken(advance(advance(advance(lx))), token)
    ELSE IF Len(lx.string_buffer) >= LEXER_MAX_STRING_LENGTH - 1
    THEN ErrorToken(set_error(lx, "LEXER_ERROR_BUFFER_OVERFLOW"), token)
    ELSE DocstringLoop(advance([lx EXCEPT !.string_buffer = Append(@, lx.current)]), token)

scan_docstring(lx, token) ==
    DocstringLoop([advance(advance(advance(lx))) EXCEPT !.string_buffer = <<>>],
                  [token EXCEPT !.type = "TOKEN_DOCSTRING"])

\* The byte an escape sequence stands for, NUL for an invalid one.
Escaped(c) ==
    CASE c = "n" -> "\n"
      [] c = "t" -> "\t"
      [] c = "\\" -> "\\"
      [] c = "\"" -> "\""
      [] OTHER -> NUL

\* The state of a scanning loop: the lexer, the token, and whether the
\* function has returned.
Looping(lx, token) == [lx |-> lx, token |-> token, done |-> FALSE]
Returned(scanned) == [lx |-> scanned.lx, token |-> scanned.token, done |-> TRUE]

\* One test of the condition of scan_string's loop and, where it holds, one
\* turn of its body; where it fails, the code after the loop.  An overflow of
\* the string buffer sets the error and the loop goes on.
StringStep(st) ==
    LET lx == st.lx
        token == st.token
    IN  IF st.done THEN st
        ELSE IF is_at_end(lx)
        THEN Returned(ErrorToken(set_error(lx, "LEXER_ERROR_UNTERMINATED_STRING"), token))
        ELSE IF lx.current = "\"" THEN Returned(BufferToken(advance(lx), token))
        ELSE IF lx.current = "$" /\ lx.peek = "{"
        THEN IF Len(lx.string_buffer) > 0 THEN Returned(BufferToken(lx, token))
             ELSE Returned(Scanned(advance(advance(lx)),
                                   [TokenAt(lx) EXCEPT !.type = "TOKEN_INTERPOLATION_START",
                                                       !.text = <<"$", "{">>]))
        ELSE IF lx.current = "\\"
        THEN LET l1 == advance(lx)
             IN  IF is_at_end(l1)
                 THEN Returned(ErrorToken(set_error(l1, "LEXER_ERROR_UNTERMINATED_STRING"),
                                          token))
                 ELSE IF Escaped(l1.current) = NUL
                 THEN Returned(ErrorToken(set_error(l1, "LEXER_ERROR_INVALID_ESCAPE"), token))
                 ELSE Looping(advance(safe_append_char(l1, Escaped(l1.current))), token)
        ELSE Looping(advance(safe_append_char(lx, lx.current)), token)

\* n turns of the loop, the first half of them before the second.
RECURSIVE StringLoop(_, _)
StringLoop(st, n) ==
    IF n = 0 THEN st
    ELSE IF n = 1 THEN StringStep(st)
    ELSE After(StringLoop(st, n \div 2), LAMBDA s : StringLoop(s, n - (n \div 2)))

\* Every turn but the last consumes a byte, so the loop ends within as many
\* turns as there are bytes left, and one.
scan_string(lx, token) ==
    LET l1 == [advance(lx) EXCEPT !.string_buffer = <<>>]
        r == StringLoop(Looping(l1, [token EXCEPT !.type = "TOKEN_STRING"]),
                        l1.length - l1.position + 1)
    IN  Scanned(r.lx, r.token)

RECURSIVE RegexLoop(_, _)
RegexLoop(lx, token) ==
    IF is_at_end(lx) THEN BufferToken(lx, token)
    ELSE IF lx.current = "\\"
    THEN LET l1 == advance(safe_append_char(lx, lx.current))
         IN  IF is_at_end(l1) THEN RegexLoop(l1, token)
             ELSE RegexLoop(advance(safe_append_char(l1, l1.current)), token)
    ELSE IF lx.current = "/" THEN BufferToken(advance(lx), token)
    ELSE RegexLoop(advance(safe_append_char(lx, lx.current)), token)

scan_regex_literal(lx, token) ==
    RegexLoop([advance(lx) EXCEPT !.string_buffer = <<>>],
              [token EXCEPT !.type = "TOKEN_REGEX"])

\* The digits of a hexadecimal, binary or octal number after its prefix;
\* the underscores of the last two are skipped.
RECURSIVE PrefixedLoop(_, _, _)
PrefixedLoop(lx, buffer, base) ==
    LET c == lx.current
        digit == CASE base = 16 -> is_hex_digit(c)
                   [] base = 2 -> c \in {"0", "1", "_"}
                   [] OTHER -> (is_digit_10(c) /\ DigitValue(c) <= 7) \/ c = "_"
    IN  IF ~is_at_end(lx) /\ digit
        THEN PrefixedLoop(advance(lx), IF c = "_" THEN buffer ELSE Append(buffer, c), base)
        ELSE [lx |-> lx, buffer |-> buffer]

scan_prefixed(lx, token, base) ==
    LET l1 == advance(lx)
        r == PrefixedLoop(advance(l1), <<lx.current, l1.current>>, base)
    IN  Scanned(r.lx, [token EXCEPT !.type = "TOKEN_INTEGER",
                                    !.value = IntTokenValue(strtoll(r.buffer, base)),
                                    !.text = r.buffer])

\* "while (is_digit_10(lexer->current))" of an exponent.
RECURSIVE ExponentDigits(_, _)
ExponentDigits(lx, buffer) ==
    IF is_digit_10(lx.current) THEN ExponentDigits(advance(lx), Append(buffer, lx.current))
    ELSE [lx |-> lx, buffer |-> buffer]

RECURSIVE DecimalLoop(_, _, _, _)
DecimalLoop(lx, buffer, seen_dot, is_float) ==
    LET c == lx.current
        done == [lx |-> lx, buffer |-> buffer, is_float |-> is_float]
    IN  IF is_at_end(lx) THEN done
        ELSE IF c = "_" THEN DecimalLoop(advance(lx), buffer, seen_dot, is_float)
        ELSE IF c = "." THEN IF seen_dot THEN done
                             ELSE DecimalLoop(advance(lx), Append(buffer, c), TRUE, TRUE)
        ELSE IF is_digit_10(c) THEN DecimalLoop(advance(lx), Append(buffer, c), seen_dot,
                                                is_float)
        ELSE IF c \in {"e", "E"} /\ is_digit_10(lx.peek)
        THEN LET l1 == advance(lx)
                 signed == l1.current \in {"+", "-"}
                 e == ExponentDigits(IF signed THEN advance(l1) ELSE l1,
                                     IF signed THEN buffer \o <<c, l1.current>>
                                     ELSE Append(buffer, c))
             IN  DecimalLoop(e.lx, e.buffer, seen_dot, TRUE)
        ELSE done

\* The value of a float is left at 0.
scan_number(lx, token) ==
    IF lx.current = "0" /\ lx.peek \in {"x", "X"} THEN scan_prefixed(lx, token, 16)
    ELSE IF lx.current = "0" /\ lx.peek \in {"b", "B"} THEN scan_prefixed(lx, token, 2)
    ELSE IF lx.current = "0" /\ lx.peek \in {"o", "O"} THEN scan_prefixed(lx, token, 8)
    ELSE LET r == DecimalLoop(lx, <<>>, FALSE, FALSE)
         IN  Scanned(r.lx,
                     IF r.is_float
                     THEN [token EXCEPT !.type = "TOKEN_FLOAT", !.text = r.buffer]
                     ELSE [token EXCEPT !.type = "TOKEN_INTEGER", !.text = r.buffer,
                                        !.value = IntTokenValue(ParseDigits(r.buffer, 10, 0))])

KEYWORDS ==
    <<
        [keyword |-> <<"f", "r", "a", "m", "e">>, type |-> "TOKEN_FRAME"],
        [keyword |-> <<"i", "n">>, type |-> "TOKEN_IN"],
        [keyword |-> <<"v", "a", "r">>, type |-> "TOKEN_VAR"],
        [keyword |-> <<"c", "o", "n", "s", "t">>, type |-> "TOKEN_CONST"],
        [keyword |-> <<"f", "u", "n", "c">>, type |-> "TOKEN_FUNC"],
        [keyword |-> <<"r", "e", "t", "u", "r", "n">>, type |-> "TOKEN_RETURN"],
        [keyword |-> <<"i", "f">>, type |-> "TOKEN_IF"],
        [keyword |-> <<"e", "l", "s", "e">>, type |-> "TOKEN_ELSE"],
        [keyword |-> <<"l", "o", "o", "p">>, type |-> "TOKEN_LOOP"],
        [keyword |-> <<"b", "r", "e", "a", "k">>, type |-> "TOKEN_BREAK"],
        [keyword |-> <<"c", "o", "n", "t", "i", "n", "u", "e">>, type |-> "TOKEN_CONTINUE"],
        [keyword |-> <<"o", "n", "_", "e", "r", "r", "o", "r">>, type |-> "TOKEN_ON_ERROR"],
        [keyword |-> <<"r", "e", "t", "r", "y">>, type |-> "TOKEN_RETRY"],
        [keyword |-> <<"r", "e", "s", "e", "t">>, type |-> "TOKEN_RESET"],
        [keyword |-> <<"n", "u", "l", "l">>, type |-> "TOKEN_NULL"],
        [keyword |-> <<"f", "u", "n", "c", "t", "i", "o", "n">>, type |-> "TOKEN_FUNCTION"],
        [keyword |-> <<"t", "r", "y">>, type |-> "TOKEN_TRY"],
        [keyword |-> <<"c", "a", "t", "c", "h">>, type |-> "TOKEN_CATCH"],
        [keyword |-> <<"e", "l", "i", "f">>, type |-> "TOKEN_ELIF"],
        [keyword |-> <<"w", "h", "i", "l", "e">>, type |-> "TOKEN_WHILE"],
        [keyword |-> <<"f", "o", "r">>, type |-> "TOKEN_FOR"],
        [keyword |-> <<"s", "w", "i", "t", "c", "h">>, type |-> "TOKEN_SWITCH"],
        [keyword |-> <<"c", "l", "a", "s", "s">>, type |-> "TOKEN_CLASS"],
        [keyword |-> <<"i", "m", "p", "o", "r", "t">>, type |-> "TOKEN_IMPORT"]
    >>

RECURSIVE IdentifierLoop(_, _)
IdentifierLoop(lx, buffer) ==
    IF ~is_at_end(lx) /\ is_valid_identifier_char(lx.current)
    THEN IdentifierLoop(advance(lx),
                        IF Len(buffer) < TOKEN_TEXT_SIZE - 1 THEN Append(buffer, lx.current)
                        ELSE buffer)
    ELSE [lx |-> lx, buffer |-> buffer]

\* bool_value is the first byte of the value union.
scan_identifier(lx, token) ==
    LET r == IdentifierLoop(lx, <<>>)
        found == {i \in 1 .. Len(KEYWORDS) : KEYWORDS[i].keyword = r.buffer}
        type == IF found = {} THEN "TOKEN_IDENTIFIER"
                ELSE KEYWORDS[CHOOSE i \in found : \A j \in found : i <= j].type
    IN  Scanned(r.lx,
                IF r.buffer = <<"t", "r", "u", "e">>
                THEN [token EXCEPT !.type = "TOKEN_BOOL_TRUE", !.text = r.buffer,
                                   !.value = IntTokenValue(1)]
                ELSE IF r.buffer = <<"f", "a", "l", "s", "e">>
                THEN [token EXCEPT !.type = "TOKEN_BOOL_FALSE", !.text = r.buffer]
                ELSE [token EXCEPT !.type = type, !.text = r.buffer])

\* The two-character operators, in the order they are tried.
MultiCharOperators ==
    <<
        [c |-> "*", p |-> "*", type |-> "TOKEN_POW"],
        [c |-> "+", p |-> "+", type |-> "TOKEN_INCREMENT"],
        [c |-> "-", p |-> "-", type |-> "TOKEN_DECREMENT"],
        [c |-> "=", p |-> "=", type |-> "TOKEN_EQ"],
        [c |-> "!", p |-> "=", type |-> "TOKEN_NEQ"],
        [c |-> "<", p |-> "=", type |-> "TOKEN_LTE"],
        [c |-> ">", p |-> "=", type |-> "TOKEN_GTE"],
        [c |-> "&", p |-> "&", type |-> "TOKEN_AND"],
        [c |-> "|", p |-> "|", type |-> "TOKEN_OR"],
        [c |-> "+", p |-> "=", type |-> "TOKEN_PLUS_ASSIGN"],
        [c |-> "-", p |-> "=", type |-> "TOKEN_MINUS_ASSIGN"],
        [c |-> "*", p |-> "=", type |-> "TOKEN_STAR_ASSIGN"],
        [c |-> "/", p |-> "=", type |-> "TOKEN_SLASH_ASSIGN"],
        [c |-> "%", p |-> "=", type |-> "TOKEN_MOD_ASSIGN"],
        [c |-> "-", p |-> ">", type |-> "TOKEN_ARROW"],
        [c |-> "=", p |-> ">", type |-> "TOKEN_DOUBLE_ARROW"],
        [c |-> ":", p |-> ":", type |-> "TOKEN_DOUBLE_COLON"]
    >>

SingleCharOperators ==
    <<
        [c |-> "~", type |-> "TOKEN_BIT_NOT"],
        [c |-> "^", type |-> "TOKEN_BIT_XOR"],
        [c |-> "&", type |-> "TOKEN_BIT_AND"],
        [c |-> "|", type |-> "TOKEN_BIT_OR"],
        [c |-> "[", type |-> "TOKEN_LBRACKET"],
        [c |-> "]", type |-> "TOKEN_RBRACKET"],
        [c |-> "+", type |-> "TOKEN_PLUS"],
        [c |-> "-", type |-> "TOKEN_MINUS"],
        [c |-> "*", type |-> "TOKEN_STAR"],
        [c |-> "/", type |-> "TOKEN_SLASH"],
        [c |-> "%", type |-> "TOKEN_PERCENT"],
        [c |-> "=", type |-> "TOKEN_ASSIGN"],
        [c |-> "!", type |-> "TOKEN_NOT"],
        [c |-> "<", type |-> "TOKEN_LT"],
        [c |-> ">", type |-> "TOKEN_GT"],
        [c |-> "(", type |-> "TOKEN_LPAREN"],
        [c |-> ")", type |-> "TOKEN_RPAREN"],
        [c |-> "{", type |-> "TOKEN_LBRACE"],
        [c |-> "}", type |-> "TOKEN_RBRACE"],
        [c |-> ";", type |-> "TOKEN_SEMICOLON"],
        [c |-> ":", type |-> "TOKEN_COLON"],
        [c |-> ",", type |-> "TOKEN_COMMA"],
        [c |-> ".", type |-> "TOKEN_DOT"]
    >>

\* position and column move by the length of the text in one step.
handle_multi_char_operator(lx, type, text) ==
    Scanned([lx EXCEPT !.position = @ + Len(text),
                       !.current = ByteAt(lx.source, lx.position + Len(text)),
                       !.peek = ByteAt(lx.source, lx.position + Len(text) + 1),
                       !.column = @ + Len(text)],
            [TokenAt(lx) EXCEPT !.type = type, !.text = text])

\* The operator scanner without the advance past a byte that starts no
\* operator.
scan_operator_or_regex_KeepsInvalid(lx) ==
    LET c == lx.current
        p == lx.peek
        multi == {i \in 1 .. Len(MultiCharOperators) :
                      MultiCharOperators[i].c = c /\ MultiCharOperators[i].p = p}
        single == {i \in 1 .. Len(SingleCharOperators) : SingleCharOperators[i].c = c}
    IN  IF multi # {}
        THEN handle_multi_char_operator(
                 lx, MultiCharOperators[CHOOSE i \in multi : \A j \in multi : i <= j].type,
                 <<c, p>>)
        ELSE IF single # {}
        THEN Scanned(advance(lx),
                     [TokenAt(lx) EXCEPT !.type = SingleCharOperators[CHOOSE i \in single :
                                                                          TRUE].type,
                                         !.text = <<c>>])
        ELSE Scanned(set_error(lx, "LEXER_ERROR_INVALID_CHAR"),
                     [TokenAt(lx) EXCEPT !.type = "TOKEN_ERROR", !.text = <<c>>])

scan_operator_or_regex(lx) ==
    LET c == lx.current
        p == lx.peek
        multi == {i \in 1 .. Len(MultiCharOperators) :
                      MultiCharOperators[i].c = c /\ MultiCharOperators[i].p = p}
        single == {i \in 1 .. Len(SingleCharOperators) : SingleCharOperators[i].c = c}
    IN  IF multi # {}
        THEN handle_multi_char_operator(
                 lx, MultiCharOperators[CHOOSE i \in multi : \A j \in multi : i <= j].type,
                 <<c, p>>)
        ELSE IF single # {}
        THEN Scanned(advance(lx),
                     [TokenAt(lx) EXCEPT !.type = SingleCharOperators[CHOOSE i \in single :
                                                                          TRUE].type,
                                         !.text = <<c>>])
        ELSE Scanned(advance(set_error(lx, "LEXER_ERROR_INVALID_CHAR")),
                     [TokenAt(lx) EXCEPT !.type = "TOKEN_ERROR", !.text = <<c>>])

scan_token_dispatch(lx, token) ==
    LET c == lx.current
    IN  IF three_quotes(lx) THEN scan_docstring(lx, token)
        ELSE IF c = "\"" THEN scan_string(lx, token)
        ELSE IF c = "/" /\ lx.peek # "/" /\ lx.peek # "*" THEN scan_regex_literal(lx, token)
        ELSE IF is_valid_identifier_start(c) THEN scan_identifier(lx, token)
        ELSE IF is_digit_10(c) \/ (c = "." /\ is_digit_10(lx.peek)) THEN scan_number(lx, token)
        ELSE scan_operator_or_regex(lx)

lexer_next_token_internal(lx) ==
    LET l1 == skip_comments(skip_whitespace(lx))
    IN  IF is_at_end(l1) THEN Scanned(l1, [TokenAt(l1) EXCEPT !.type = "TOKEN_EOF"])
        ELSE IF l1.current = "\n" /\ l1.config.track_line_endings
        THEN Scanned(advance(l1), [TokenAt(l1) EXCEPT !.type = "TOKEN_NEWLINE",
                                                      !.text = <<"\\", "n">>])
        ELSE scan_token_dispatch(l1, TokenAt(l1))

lexer_next_token(lx) == lexer_next_token_internal(clear_error(lx))

\* A peek that keeps the column the scan reached.
lexer_peek_token_KeepsColumn(lx) ==
    LET r == lexer_next_token_internal(lx)
    IN  Scanned([r.lx EXCEPT !.position = lx.position, !.line = lx.line,
                             !.current = lx.current, !.peek = lx.peek, !.error = lx.error],
                r.token)

\* Everything but the string buffer is put back.
lexer_peek_token(lx) ==
    LET r == lexer_next_token_internal(lx)
    IN  Scanned([r.lx EXCEPT !.position = lx.position, !.line = lx.line,
                             !.column = lx.column, !.current = lx.current,
                             !.peek = lx.peek, !.error = lx.error],
                r.token)

\* ---------------------------------------------------------------------
\* A client of the lexer: lexer_create, then lexer_next_token and
\* lexer_peek_token until the end of the source is returned.
\* ---------------------------------------------------------------------

\* Nothing is parsed or compiled and no VM exists.
NothingCompiled ==
    /\ ast = NoNode
    /\ compiled = NoCompile
    /\ instruction_count = 0
    /\ code = [i \in 0 .. -1 |-> NoInstr]
    /\ constant_pool = <<>>
    /\ pc = 0
    /\ running = TRUE
    /\ registers = [r \in Regs |-> NullValue]
    /\ call_stack = <<>>
    /\ return_addresses = <<>>
    /\ objects = <<>>
    /\ object_capacity = 0
    /\ heap = <<>>
    /\ coroutines = [i \in 0 .. MAX_COROUTINES - 1 |-> [active |-> FALSE, pc |-> 0]]
    /\ current_coro = 0
    /\ regs_at_yield = [i \in 0 .. MAX_COROUTINES - 1 |-> <<>>]
    /\ native_registry = <<>>
    /\ ret = RetVoid
    /\ call_sites = <<>>
    /\ native_calls = <<>>
    /\ args_read = {}
    /\ destroyed = <<>>

LexerCreated(source, config) ==
    /\ host = NoHost
    /\ lexer = lexer_create(source, config)
    /\ lexed = NoLexed
    /\ phase = "lexing"
    /\ NothingCompiled

lexVars ==
    <<host, ast, compiled, code, instruction_count, constant_pool, pc, running, registers,
      call_stack, return_addresses, objects, object_capacity, heap, coroutines,
      current_coro, native_registry, phase, ret, call_sites, native_calls, args_read,
      destroyed, regs_at_yield>>

AtEndOfTokens ==
    lexed.tokens # <<>> /\ lexed.tokens[Len(lexed.tokens)].type = "TOKEN_EOF"

\* Token t = lexer_next_token(lexer); the client keeps the tokens it peeked
\* since the call before to compare them with t.
LexerNextToken ==
    /\ phase = "lexing"
    /\ ~AtEndOfTokens
    /\ LET r == lexer_next_token(lexer)
       IN  /\ lexer' = r.lx
           /\ lexed' = [tokens |-> Append(lexed.tokens, r.token), peeked |-> <<>>,
                        compared |-> lexed.peeked]
    /\ UNCHANGED lexVars

LexerPeekToken ==
    /\ phase = "lexing"
    /\ ~AtEndOfTokens
    /\ Len(lexed.peeked) < MaxPeeks
    /\ LET r == lexer_peek_token(lexer)
       IN  /\ lexer' = r.lx
           /\ lexed' = [lexed EXCEPT !.peeked = Append(@, r.token)]
    /\ UNCHANGED lexVars

SourceBytes == {"\"", "/", "=", "\n", " ", "1", "*"}
ShortSources == UNION {[1 .. n -> SourceBytes] : n \in 0 .. MaxSrcLen}

\* "aaa...a" with a content around the size of the string buffer.
LongStrings ==
    {[i \in 1 .. n + 2 |-> IF i \in {1, n + 2} THEN "\"" ELSE "a"] :
         n \in LEXER_MAX_STRING_LENGTH - 2 .. LEXER_MAX_STRING_LENGTH + 1}

\* "val=${1+2}"
InterpolationSource ==
    <<"\"", "v", "a", "l", "=", "$", "{", "1", "+", "2", "}", "\"">>

\* "${1}"
InterpolationAtStart == <<"\"", "$", "{", "1", "}", "\"">>

\* +-*/% as test_single_char_tokens starts
SlashSource == <<"+", "-", "*", "/", "%">>

Sources ==
    ShortSources \cup LongStrings \cup {InterpolationSource, InterpolationAtStart, SlashSource}

\* Comments, for a lexer configured with include_comments.
CommentSources ==
    {<<"/", "/">>, <<"/", "*">>, <<"/", "*", "*", "/">>, <<"/", "/", "1", "\n", "=">>,
     <<"=", " ", "/", "*", "1">>}

InitLexer ==
    \/ \E source \in Sources, track \in BOOLEAN :
           LexerCreated(source, [lexer_default_config EXCEPT !.track_line_endings = track])
    \/ \E source \in CommentSources :
           LexerCreated(source, [lexer_default_config EXCEPT !.include_comments = TRUE])

NextLexer ==
    \/ LexerNextToken
    \/ LexerPeekToken

SpecLexer == InitLexer /\ [][NextLexer]_vars

Lexing == phase = "lexing"
LastToken == lexed.tokens[Len(lexed.tokens)]
PeekStep == Len(lexed'.peeked) = Len(lexed.peeked) + 1
NextTokenStep == Len(lexed'.tokens) = Len(lexed.tokens) + 1

\* C22: lexer_peek_token returns the token the lexer_next_token that follows
\* returns, with the same kind, text, payload and location, and leaves
\* position, line, column, the current and lookahead bytes and the error
\* record as they were, so consecutive peeks return equal tokens.
C22_PeekEqualsNext ==
    [][/\ PeekStep =>
              /\ lexer'.position = lexer.position
              /\ lexer'.line = lexer.line
              /\ lexer'.column = lexer.column
              /\ lexer'.current = lexer.current
              /\ lexer'.peek = lexer.peek
              /\ lexer'.error = lexer.error
              /\ \A i \in 1 .. Len(lexed'.peeked) : lexed'.peeked[i] = lexed'.peeked[1]
       /\ NextTokenStep =>
              \A i \in 1 .. Len(lexed.peeked) :
                  lexed.peeked[i] = lexed'.tokens[Len(lexed'.tokens)]]_vars

\* A string that holds a newline was peeked twice and then returned.
C22_Witness ==
    /\ Lexing
    /\ Len(lexed.compared) >= 2
    /\ LastToken.type = "TOKEN_STRING"
    /\ LastToken.line < lexer.line

NewlinesIn(source, n) == Cardinality({i \in 1 .. n : source[i] = "\n"})
LastNewline(source, n) ==
    LET at == {0} \cup {i \in 1 .. n : source[i] = "\n"}
    IN  CHOOSE i \in at : \A j \in at : j <= i

C24_LongStringOverflows ==
    (Lexing /\ lexer.source \in LongStrings /\ Len(lexed.tokens) = 1) =>
        LET n == Len(lexer.source) - 2
        IN  /\ n = LEXER_MAX_STRING_LENGTH - 1 =>
                   /\ LastToken.type = "TOKEN_STRING"
                   /\ lexer.error.type = "LEXER_ERROR_NONE"
            /\ n >= LEXER_MAX_STRING_LENGTH =>
                   /\ LastToken.type = "TOKEN_ERROR"
                   /\ lexer.error.type = "LEXER_ERROR_BUFFER_OVERFLOW"

\* C25: the error UnterminatedString has the line and column of the opening
\* quote of the literal, which are those of the token returned.
C25_UnterminatedAtOpeningQuote ==
    (Lexing /\ lexed.tokens # <<>>
            /\ lexer.error.type = "LEXER_ERROR_UNTERMINATED_STRING") =>
        /\ lexer.error.line = LastToken.line
        /\ lexer.error.column = LastToken.column

InterpolationTypes ==
    <<"TOKEN_STRING", "TOKEN_INTERPOLATION_START", "TOKEN_INTEGER", "TOKEN_PLUS",
      "TOKEN_INTEGER", "TOKEN_INTERPOLATION_END">>

\* C26: "val=${1+2}" gives String("val="), InterpolationStart, Int(1), +,
\* Int(2) and InterpolationEnd, in this order.
C26_InterpolationTokens ==
    (Lexing /\ lexer.source = InterpolationSource) =>
        /\ \A i \in 1 .. Len(lexed.tokens) :
               i <= Len(InterpolationTypes) => lexed.tokens[i].type = InterpolationTypes[i]
        /\ Len(lexed.tokens) >= 1 => lexed.tokens[1].value.data = <<"v", "a", "l", "=">>
        /\ Len(lexed.tokens) >= 3 => lexed.tokens[3].value.int_value = 1
        /\ Len(lexed.tokens) >= 5 => lexed.tokens[5].value.int_value = 2

TokensOfType(type) == {i \in 1 .. Len(lexed.tokens) : lexed.tokens[i].type = type}

\* C27: without track_line_endings a newline gives no Newline token and no
\* ERROR token; with it, a source without literals and comments gives one
\* Newline token for each of its newline bytes.
C27_NewlinesAreWhitespace ==
    Lexing =>
        /\ ~lexer.config.track_line_endings =>
               /\ TokensOfType("TOKEN_NEWLINE") = {}
               /\ \A i \in TokensOfType("TOKEN_ERROR") : lexed.tokens[i].text # <<"\n">>
        /\ (/\ lexer.config.track_line_endings
            /\ AtEndOfTokens
            /\ \A i \in 1 .. lexer.length : lexer.source[i] \notin {"\"", "/"}) =>
               Cardinality(TokensOfType("TOKEN_NEWLINE")) =
                   NewlinesIn(lexer.source, lexer.length)

\* The position in the source of a line and a column.
OffsetOf(source, line, column) ==
    CHOOSE p \in 0 .. Len(source) :
        /\ line = 1 + NewlinesIn(source, p)
        /\ column = 1 + p - LastNewline(source, p)

OperatorBytes == {SingleCharOperators[i].c : i \in 1 .. Len(SingleCharOperators)}

\* C28: a token that starts at the two bytes of a two-character operator is
\* that operator, /= being SLASH_ASSIGN; a / between two operators that
\* starts neither /=, a comment nor a token after it is SLASH.
C28_TwoCharOperators ==
    Lexing =>
        \A i \in 1 .. Len(lexed.tokens) :
            LET t == lexed.tokens[i]
                p == OffsetOf(lexer.source, t.line, t.column)
                c1 == ByteAt(lexer.source, p)
                c2 == ByteAt(lexer.source, p + 1)
            IN  /\ \A k \in 1 .. Len(MultiCharOperators) :
                       (MultiCharOperators[k].c = c1 /\ MultiCharOperators[k].p = c2) =>
                           (t.type = MultiCharOperators[k].type /\ t.text = <<c1, c2>>)
                /\ (/\ c1 = "/"
                    /\ p > 0
                    /\ lexer.source[p] \in OperatorBytes
                    /\ c2 \in OperatorBytes \ {"/", "*", "="}) =>
                       t.type = "TOKEN_SLASH"

\* ---------------------------------------------------------------------
\* The parser (parser.c): declarations, blocks and expression statements.
\* ---------------------------------------------------------------------

\* null_read: a field of the node behind a null pointer has been read.
parser_create(tokens) ==
    [tokens |-> tokens, token_count |-> Len(tokens), current |-> 0, null_read |-> FALSE]

EofToken == [ZeroToken EXCEPT !.type = "TOKEN_EOF"]
Parsed(ps, node) == [ps |-> ps, node |-> node]
Taken(ps, token) == [ps |-> ps, token |-> token]

RECURSIVE parser_skip_whitespace(_)
parser_skip_whitespace(ps) ==
    IF /\ ps.current < ps.token_count
       /\ ps.tokens[ps.current + 1].type \in {"TOKEN_NEWLINE", "TOKEN_WHITESPACE"}
    THEN parser_skip_whitespace([ps EXCEPT !.current = @ + 1])
    ELSE ps

parser_peek(ps) ==
    LET p1 == parser_skip_whitespace(ps)
    IN  Taken(p1, IF p1.current < p1.token_count THEN p1.tokens[p1.current + 1]
                  ELSE EofToken)

parser_advance(ps) ==
    IF ps.current < ps.token_count
    THEN Taken([ps EXCEPT !.current = @ + 1], ps.tokens[ps.current + 1])
    ELSE Taken(ps, EofToken)

parser_match(ps, type) ==
    LET p == parser_peek(ps)
    IN  IF p.token.type = type THEN [ps |-> parser_advance(p.ps).ps, matched |-> TRUE]
        ELSE [ps |-> p.ps, matched |-> FALSE]

\* The message goes to stderr; the parser's state is that of the match and,
\* where it fails, of the peek for the message.
parser_consume(ps, type) == parser_match(ps, type).ps

\* A null node is not appended.
append_node(array, node) == IF node = NoNode THEN array ELSE Append(array, node)

make_expr_literal(tok) ==
    Literal(tok.type, IF tok.type = "TOKEN_INTEGER" THEN ParseDigits(tok.text, 10, 0) ELSE 0)
make_expr_identifier(tok) == Identifier(tok.text)

AssignOperators ==
    {"TOKEN_ASSIGN", "TOKEN_PLUS_ASSIGN", "TOKEN_MINUS_ASSIGN", "TOKEN_STAR_ASSIGN",
     "TOKEN_SLASH_ASSIGN", "TOKEN_MOD_ASSIGN"}

\* The operators of parse_logical_or, parse_logical_and, parse_bitwise_or,
\* parse_bitwise_xor, parse_bitwise_and, parse_equality, parse_comparison,
\* parse_term, parse_factor and parse_power, each of which calls the next
\* for its operands and parse_power calls parse_unary.
BinaryOperators ==
    <<{"TOKEN_OR"}, {"TOKEN_AND"}, {"TOKEN_BIT_OR"}, {"TOKEN_BIT_XOR"}, {"TOKEN_BIT_AND"},
      {"TOKEN_EQ", "TOKEN_NEQ"}, {"TOKEN_LT", "TOKEN_GT", "TOKEN_LTE", "TOKEN_GTE"},
      {"TOKEN_PLUS", "TOKEN_MINUS"}, {"TOKEN_STAR", "TOKEN_SLASH", "TOKEN_PERCENT"},
      {"TOKEN_POW"}>>

UnaryOperators ==
    {"TOKEN_MINUS", "TOKEN_PLUS", "TOKEN_NOT", "TOKEN_BIT_NOT", "TOKEN_INCREMENT",
     "TOKEN_DECREMENT"}

RECURSIVE parse_assignment(_)
RECURSIVE parse_binary(_, _)
RECURSIVE BinaryLoop(_, _, _)
RECURSIVE BinaryLevels(_, _, _)
RECURSIVE parse_unary(_)
RECURSIVE parse_primary(_)
RECURSIVE ArgumentLoop(_, _)
RECURSIVE CallLoop(_, _)

parse_expression(ps) == parse_assignment(ps)

parse_assignment(ps) ==
    After(parse_binary(ps, 1), LAMBDA left :
        LET p == parser_peek(left.ps)
        IN  IF p.token.type \in AssignOperators
            THEN After(parse_assignment(parser_advance(p.ps).ps), LAMBDA right :
                     Parsed(right.ps, Binary(p.token.type, left.node, right.node)))
            ELSE Parsed(p.ps, left.node))

\* "for (;;)" of a binary level: while an operator of the level comes, the
\* node so far becomes the left operand of a new node.
BinaryLoop(ps, node, level) ==
    LET p == parser_peek(ps)
    IN  IF p.token.type \in BinaryOperators[level]
        THEN After(parse_binary(parser_advance(p.ps).ps, level + 1), LAMBDA rhs :
                 BinaryLoop(rhs.ps, Binary(p.token.type, node, rhs.node), level))
        ELSE Parsed(p.ps, node)

\* The loops of the levels hi down to lo, in this order, on the node so far.
BinaryLevels(left, lo, hi) ==
    IF lo = hi THEN BinaryLoop(left.ps, left.node, lo)
    ELSE After(BinaryLevels(left, (lo + hi) \div 2 + 1, hi), LAMBDA upper :
             BinaryLevels(upper, lo, (lo + hi) \div 2))

\* The function of a level starts by calling that of the next level, and so
\* on down to parse_unary; on the way back each level runs its loop.
parse_binary(ps, level) ==
    IF level > Len(BinaryOperators) THEN parse_unary(ps)
    ELSE After(parse_unary(ps), LAMBDA operand :
             BinaryLevels(operand, level, Len(BinaryOperators)))

parse_power(ps) == parse_binary(ps, Len(BinaryOperators))

parse_unary(ps) ==
    LET p == parser_peek(ps)
    IN  IF p.token.type \in UnaryOperators
        THEN After(parse_unary(parser_advance(p.ps).ps), LAMBDA sub :
                 Parsed(sub.ps, Unary(p.token.type, sub.node)))
        ELSE parse_primary(p.ps)

\* "do { ... } while (parser_match(parser, TOKEN_COMMA))".
ArgumentLoop(ps, args) ==
    After(parse_expression(ps), LAMBDA arg :
        LET comma == parser_match(arg.ps, "TOKEN_COMMA")
        IN  IF comma.matched THEN ArgumentLoop(comma.ps, append_node(args, arg.node))
            ELSE [ps |-> comma.ps, args |-> append_node(args, arg.node)])

parse_call(ps, callee) ==
    LET p == parser_peek(ps)
    IN  After(IF p.token.type # "TOKEN_RPAREN" THEN ArgumentLoop(p.ps, <<>>)
              ELSE [ps |-> p.ps, args |-> <<>>],
              LAMBDA r : Parsed(parser_consume(r.ps, "TOKEN_RPAREN"), Call(callee, r.args)))

\* "while (parser_peek(parser).type == TOKEN_LPAREN)" after an identifier.
CallLoop(ps, node) ==
    LET p == parser_peek(ps)
    IN  IF p.token.type = "TOKEN_LPAREN"
        THEN After(parse_call(parser_advance(p.ps).ps, node), LAMBDA call :
                 CallLoop(call.ps, call.node))
        ELSE Parsed(p.ps, node)

parse_primary(ps) ==
    LET p == parser_peek(ps)
        t == p.token
        next == parser_advance(p.ps).ps
    IN  CASE t.type \in {"TOKEN_DOCSTRING", "TOKEN_REGEX"} ->
                 Parsed(next, Node(IF t.type = "TOKEN_REGEX" THEN "AST_NODE_REGEX"
                                   ELSE "AST_NODE_DOCSTRING",
                                   [literal_type |-> t.type, val |-> 0]))
          [] t.type = "TOKEN_INTERPOLATION_START" ->
                 After(parse_expression(next), LAMBDA inner :
                     Parsed(parser_consume(inner.ps, "TOKEN_INTERPOLATION_END"),
                            Interpolation(inner.node)))
          [] t.type = "TOKEN_LPAREN" ->
                 After(parse_expression(next), LAMBDA e :
                     Parsed(parser_consume(e.ps, "TOKEN_RPAREN"), e.node))
          [] t.type \in {"TOKEN_INTEGER", "TOKEN_FLOAT", "TOKEN_STRING", "TOKEN_BOOL_TRUE",
                         "TOKEN_BOOL_FALSE"} ->
                 Parsed(next, make_expr_literal(t))
          [] t.type = "TOKEN_IDENTIFIER" -> CallLoop(next, make_expr_identifier(t))
          [] OTHER -> Parsed(next, NoNode)

\* "stmt->loc = expr->loc" reads the node the expression returned, a null
\* pointer when parse_primary found no expression.
parse_expression_stmt(ps) ==
    After(parse_expression(ps), LAMBDA expr :
        LET semi == parser_match(expr.ps, "TOKEN_SEMICOLON")
        IN  Parsed([semi.ps EXCEPT !.null_read = @ \/ expr.node = NoNode],
                   ExprStmt(expr.node)))

RECURSIVE parse_statement(_)
RECURSIVE BlockLoop(_, _)

\* The statements of a block up to its closing brace or the end.
BlockLoop(ps, stmts) ==
    LET p == parser_peek(ps)
    IN  IF p.token.type \notin {"TOKEN_RBRACE", "TOKEN_EOF"}
        THEN After(parse_statement(p.ps), LAMBDA st :
                 IF st.node = NoNode THEN BlockLoop(parser_advance(st.ps).ps, stmts)
                 ELSE BlockLoop(st.ps, append_node(stmts, st.node)))
        ELSE Parsed(p.ps, Block(stmts))

parse_block(ps) ==
    After(BlockLoop(parser_advance(ps).ps, <<>>), LAMBDA body :
        Parsed(parser_consume(body.ps, "TOKEN_RBRACE"), body.node))

RECURSIVE parse_declaration(_)
RECURSIVE DeclarationLoop(_, _)
RECURSIVE ParamLoop(_, _)

\* The declarations of a frame or of a class up to the closing brace or the
\* end; the frame's loop also calls skip_whitespace, after a peek that has
\* skipped already.
DeclarationLoop(ps, body) ==
    LET p == parser_peek(ps)
    IN  IF p.token.type \notin {"TOKEN_RBRACE", "TOKEN_EOF"}
        THEN After(parse_declaration(parser_skip_whitespace(p.ps)), LAMBDA s :
                 IF s.node = NoNode THEN DeclarationLoop(parser_advance(s.ps).ps, body)
                 ELSE DeclarationLoop(s.ps, append_node(body, s.node)))
        ELSE [ps |-> p.ps, body |-> body]

\* frame <id> { ... }: the keyword and the name are taken by parser_advance.
parse_frame(ps) ==
    LET frameTok == parser_advance(ps)
        idTok == parser_advance(frameTok.ps)
    IN  After(DeclarationLoop(parser_consume(idTok.ps, "TOKEN_LBRACE"), <<>>), LAMBDA r :
            Parsed(parser_consume(r.ps, "TOKEN_RBRACE"), Frame(idTok.token.text, r.body)))

\* var|const <id> (= expr)? ;?
parse_var_decl(ps) ==
    LET declTok == parser_advance(ps)
        nameTok == parser_advance(declTok.ps)
        assign == parser_match(nameTok.ps, "TOKEN_ASSIGN")
        type == IF declTok.token.type = "TOKEN_CONST" THEN "AST_NODE_CONST_DECL"
                ELSE "AST_NODE_VAR_DECL"
    IN  After(IF assign.matched THEN parse_expression(assign.ps)
              ELSE Parsed(assign.ps, NoNode),
              LAMBDA init :
                  Parsed(parser_match(init.ps, "TOKEN_SEMICOLON").ps,
                         [VarDecl(nameTok.token.text, init.node) EXCEPT !.type = type]))

\* The parameters up to ")": each is the token parser_advance returns.
ParamLoop(ps, params) ==
    LET p == parser_peek(ps)
    IN  IF p.token.type \notin {"TOKEN_RPAREN", "TOKEN_EOF"}
        THEN LET param == parser_advance(p.ps)
                 comma == parser_match(param.ps, "TOKEN_COMMA")
             IN  IF comma.matched THEN ParamLoop(comma.ps, Append(params, param.token.text))
                 ELSE [ps |-> comma.ps, params |-> Append(params, param.token.text)]
        ELSE [ps |-> p.ps, params |-> params]

\* func <name>(params){body}: the body's loop is that of a block.
parse_func_decl(ps) ==
    LET funcTok == parser_advance(ps)
        nameTok == parser_advance(funcTok.ps)
    IN  After(ParamLoop(parser_consume(nameTok.ps, "TOKEN_LPAREN"), <<>>), LAMBDA r :
            After(BlockLoop(parser_consume(parser_consume(r.ps, "TOKEN_RPAREN"),
                                           "TOKEN_LBRACE"), <<>>),
                  LAMBDA body :
                      Parsed(parser_consume(body.ps, "TOKEN_RBRACE"),
                             FuncDecl(nameTok.token.text, r.params, body.node))))

\* class <name> { ... }
parse_class_decl(ps) ==
    LET classTok == parser_advance(ps)
        nameTok == parser_advance(classTok.ps)
    IN  After(DeclarationLoop(parser_consume(nameTok.ps, "TOKEN_LBRACE"), <<>>), LAMBDA r :
            Parsed(parser_consume(r.ps, "TOKEN_RBRACE"),
                   ClassDecl(nameTok.token.text, r.body)))

\* import "module" ;?: a literal node of type TOKEN_IMPORT.
parse_import_decl(ps) ==
    LET importTok == parser_advance(ps)
        modTok == parser_advance(importTok.ps)
    IN  Parsed(parser_match(modTok.ps, "TOKEN_SEMICOLON").ps,
               Node("AST_EXPR_LITERAL",
                    [literal_type |-> "TOKEN_IMPORT", val |-> 0, str_val |-> modTok.token.text]))

\* The token arrays hold none of if, while, for, switch, try, on_error and
\* return, whose cases are left out.
parse_statement(ps) ==
    LET p == parser_peek(ps)
    IN  CASE p.token.type \in {"TOKEN_VAR", "TOKEN_CONST"} -> parse_declaration(p.ps)
          [] p.token.type = "TOKEN_LBRACE" -> parse_block(p.ps)
          [] OTHER -> parse_expression_stmt(p.ps)

parse_declaration(ps) ==
    LET p == parser_peek(ps)
    IN  CASE p.token.type = "TOKEN_FRAME" -> parse_frame(p.ps)
          [] p.token.type = "TOKEN_FUNC" -> parse_func_decl(p.ps)
          [] p.token.type = "TOKEN_CLASS" -> parse_class_decl(p.ps)
          [] p.token.type = "TOKEN_IMPORT" -> parse_import_decl(p.ps)
          [] p.token.type \in {"TOKEN_VAR", "TOKEN_CONST"} -> parse_var_decl(p.ps)
          [] OTHER -> parse_statement(p.ps)

RECURSIVE ProgramLoop(_, _)
ProgramLoop(ps, items) ==
    LET p == parser_peek(ps)
    IN  IF p.token.type # "TOKEN_EOF"
        THEN After(parse_declaration(p.ps), LAMBDA decl :
                 IF decl.node = NoNode THEN ProgramLoop(parser_advance(decl.ps).ps, items)
                 ELSE ProgramLoop(decl.ps, append_node(items, decl.node)))
        ELSE Parsed(p.ps, Block(items))

parse_program(ps) == ProgramLoop(parser_peek(ps).ps, <<>>)
parser_parse(ps) == parse_program(ps)

\* ---------------------------------------------------------------------
\* The host parses a token array: parser_create, parser_parse.
\* ---------------------------------------------------------------------

Tok(type, text) == [ZeroToken EXCEPT !.type = type, !.text = text]

OperandTokens ==
    {Tok("TOKEN_IDENTIFIER", <<"a">>), Tok("TOKEN_INTEGER", <<"2">>),
     Tok("TOKEN_INTEGER", <<"3">>)}

ParserTokens ==
    OperandTokens \cup
    {Tok("TOKEN_POW", <<"*", "*">>), Tok("TOKEN_PLUS", <<"+">>), Tok("TOKEN_LPAREN", <<"(">>),
     Tok("TOKEN_RPAREN", <<")">>), Tok("TOKEN_COMMA", <<",">>),
     Tok("TOKEN_SEMICOLON", <<";">>), Tok("TOKEN_LBRACE", <<"{">>),
     Tok("TOKEN_RBRACE", <<"}">>), Tok("TOKEN_NEWLINE", <<"\\", "n">>)}

\* a ** b ** c for any three operands.
PowerArrays ==
    {<<a, Tok("TOKEN_POW", <<"*", "*">>), b, Tok("TOKEN_POW", <<"*", "*">>), c>> :
         a \in OperandTokens, b \in OperandTokens, c \in OperandTokens}

Name == Tok("TOKEN_IDENTIFIER", <<"a">>)
Punct(type, c) == Tok(type, <<c>>)

\* One declaration of each kind: var a = 2; frame a { a; } func a(a) { a; }
\* class a { var a; } import a;
Declarations ==
    {<<Tok("TOKEN_VAR", <<"v", "a", "r">>), Name, Punct("TOKEN_ASSIGN", "="),
       Tok("TOKEN_INTEGER", <<"2">>), Punct("TOKEN_SEMICOLON", ";")>>,
     <<Tok("TOKEN_CONST", <<"c", "o", "n", "s", "t">>), Name, Punct("TOKEN_ASSIGN", "="),
       Tok("TOKEN_INTEGER", <<"2">>), Punct("TOKEN_SEMICOLON", ";")>>,
     <<Tok("TOKEN_FRAME", <<"f", "r", "a", "m", "e">>), Name, Punct("TOKEN_LBRACE", "{"),
       Name, Punct("TOKEN_SEMICOLON", ";"), Punct("TOKEN_RBRACE", "}")>>,
     <<Tok("TOKEN_FUNC", <<"f", "u", "n", "c">>), Name, Punct("TOKEN_LPAREN", "("), Name,
       Punct("TOKEN_RPAREN", ")"), Punct("TOKEN_LBRACE", "{"), Name,
       Punct("TOKEN_SEMICOLON", ";"), Punct("TOKEN_RBRACE", "}")>>,
     <<Tok("TOKEN_CLASS", <<"c", "l", "a", "s", "s">>), Name, Punct("TOKEN_LBRACE", "{"),
       Tok("TOKEN_VAR", <<"v", "a", "r">>), Name, Punct("TOKEN_SEMICOLON", ";"),
       Punct("TOKEN_RBRACE", "}")>>,
     <<Tok("TOKEN_IMPORT", <<"i", "m", "p", "o", "r", "t">>), Name,
       Punct("TOKEN_SEMICOLON", ";")>>}

WhitespaceTokens == {Tok("TOKEN_NEWLINE", <<"\\", "n">>), Tok("TOKEN_WHITESPACE", <<" ">>)}

InsertAt(tokens, k, t) == SubSeq(tokens, 1, k) \o <<t>> \o SubSeq(tokens, k + 1, Len(tokens))

\* The declarations, as they are and with one Newline or Whitespace token
\* inserted at any position.
SpacedDeclarations ==
    Declarations \cup
    {InsertAt(d[1], d[2], t) :
         d \in {e \in Declarations \X (0 .. 9) : e[2] <= Len(e[1])}, t \in WhitespaceTokens}

\* The arrays the host's loop builds end with the token EOF.
TokenArrays ==
    {Append(tokens, EofToken) :
         tokens \in PowerArrays \cup SpacedDeclarations
                     \cup UNION {[1 .. n -> ParserTokens] : n \in 0 .. MaxTokens}}

\* parser = parser_create(tokens, token_count); root = parser_parse(parser).
\* Where the parser has read through a null pointer the process ends there,
\* or goes on with whatever it read.
HostParse ==
    /\ phase = "lexed"
    /\ LET root == parser_parse(parser_create(lexed.tokens))
       IN  \/ /\ ast' = root.node
              /\ phase' = "parsed"
           \/ /\ root.ps.null_read
              /\ ast' = NoNode
              /\ phase' = "crashed"
    /\ host' = HostParsed
    /\ UNCHANGED <<lexer, lexed, compiled, code, instruction_count, constant_pool, pc, running,
                   registers, call_stack, return_addresses, objects, object_capacity, heap,
                   coroutines, current_coro, native_registry, ret, call_sites, native_calls,
                   args_read, destroyed, regs_at_yield>>

InitParse ==
    /\ lexer = NoLexer
    /\ \E tokens \in TokenArrays : lexed = [NoLexed EXCEPT !.tokens = tokens]
    /\ phase = "lexed"
    /\ NothingCompiled
    /\ host = HostLexed

NextParse == HostParse

SpecParse == InitParse /\ [][NextParse]_vars

ParseEnded == phase \in {"parsed", "crashed"}

\* C29: for every token array parser_parse returns a root that is not null,
\* and no null node of a failed sub-parse is read.
C29_ParseReturnsRoot ==
    (ParseEnded /\ lexed.tokens # <<>>) =>
        /\ phase = "parsed"
        /\ ast # NoNode
        /\ ~parser_parse(parser_create(lexed.tokens)).ps.null_read

SourceTokens == SubSeq(lexed.tokens, 1, Len(lexed.tokens) - 1)

\* C30: a ** b ** c parses to Binary(**, a, Binary(**, b, c)).
C30_PowerIsRightAssociative ==
    (phase = "parsed" /\ SourceTokens \in PowerArrays) =>
        LET operand(i) == IF SourceTokens[i].type = "TOKEN_IDENTIFIER"
                          THEN make_expr_identifier(SourceTokens[i])
                          ELSE make_expr_literal(SourceTokens[i])
        IN  ast = Block(<<ExprStmt(Binary("TOKEN_POW", operand(1),
                                          Binary("TOKEN_POW", operand(3), operand(5))))>>)

IsWhitespace(t) == t.type \in {"TOKEN_NEWLINE", "TOKEN_WHITESPACE"}
WithoutWhitespace(tokens) == SelectSeq(tokens, LAMBDA t : ~IsWhitespace(t))
ParseOf(tokens) == parser_parse(parser_create(tokens))

\* C31: Newline and Whitespace tokens are transparent to the parser: where
\* the parse reads no null node, the AST of a token array is the AST of the
\* array without its Newline and Whitespace tokens.
C31_WhitespaceIsTransparent ==
    (/\ phase = "parsed"
     /\ ~ParseOf(lexed.tokens).ps.null_read
     /\ ~ParseOf(WithoutWhitespace(lexed.tokens)).ps.null_read) =>
        ast = ParseOf(WithoutWhitespace(lexed.tokens)).node

\* ---------------------------------------------------------------------
\* osfl_run_file (osfl.c) from its first statement to its return, and the
\* exit code main makes of the status.
\* ---------------------------------------------------------------------

\* The statement x / y at the top level.
DivPrograms ==
    {Program(<<ExprStmt(Binary("TOKEN_SLASH", IntLit(x), IntLit(y)))>>) :
         x \in 0 .. MaxInt, y \in 0 .. MaxInt}

\* The programs of the files that are run.
FilePrograms == DivPrograms \cup SumPrograms \cup DeclPrograms \cup InterpPrograms

HostUnchanged ==
    UNCHANGED <<lexer, lexed, ast, compiled, code, instruction_count, constant_pool, pc, running,
                registers, call_stack, return_addresses, objects, object_capacity, heap,
                coroutines, current_coro, native_registry, call_sites, native_calls,
                args_read, destroyed, regs_at_yield>>

\* No file name: the function returns at once.  1) fopen, malloc(size + 1),
\* fread: the file does not open, the buffer is not allocated, or the
\* source is read.
HostReadFile ==
    /\ phase = "start"
    /\ \/ /\ host' = Failed(host, "OSFL_ERROR_INVALID_INPUT")
          /\ phase' = "returned"
          /\ ret' = [status |-> "OSFL_ERROR_INVALID_INPUT"]
       \/ /\ \/ host' = Failed(host, "OSFL_ERROR_FILE_IO") /\ phase' = "cleanup"
             \/ host' = Failed(host, "OSFL_ERROR_MEMORY_ALLOCATION") /\ phase' = "cleanup"
             \/ host' = Acquire(host, "source") /\ phase' = "read"
          /\ UNCHANGED ret
    /\ HostUnchanged

\* 2) lexer_create, the token buffer, the loop of lexer_next_token and the
\* test of lexer_get_error: lexer_create fails, the token buffer is not
\* allocated or not grown, the lexer ended with an error, or the tokens are
\* collected.
HostLexFile ==
    /\ phase = "read"
    /\ \/ /\ host' = Failed(Free(host, "source"), "OSFL_ERROR_LEXER")
          /\ phase' = "cleanup"
       \/ /\ host' = Failed(Acquire(host, "lexer"), "OSFL_ERROR_MEMORY_ALLOCATION")
          /\ phase' = "cleanup"
       \/ /\ host' = Failed(Acquire(Acquire(host, "lexer"), "tokens"),
                            "OSFL_ERROR_MEMORY_ALLOCATION")
          /\ phase' = "cleanup"
       \/ /\ host' = Failed(Free(Free(Acquire(Acquire(host, "lexer"), "tokens"), "lexer"),
                                 "source"),
                            "OSFL_ERROR_LEXER")
          /\ phase' = "cleanup"
       \/ /\ host' = Acquire(Acquire(host, "lexer"), "tokens")
          /\ phase' = "lexed"
    /\ UNCHANGED ret
    /\ HostUnchanged

\* 3) parser_create, parser_parse, parser_destroy, and 4) the semantic
\* analysis of the root, which finds errors or none.
HostParseFile ==
    /\ phase = "lexed"
    /\ LET parsed == Free(Acquire(Acquire(host, "parser"), "root"), "parser")
       IN  \/ /\ host' = Failed(Free(Free(Free(parsed, "root"), "lexer"), "source"),
                                "OSFL_ERROR_SYNTAX")
              /\ ast' = NoNode
              /\ phase' = "cleanup"
           \/ /\ host' = parsed
              /\ ast' \in FilePrograms
              /\ phase' = "parsed"
    /\ UNCHANGED <<lexer, lexed, compiled, code, instruction_count, constant_pool, pc, running,
                   registers, call_stack, return_addresses, objects, object_capacity, heap,
                   coroutines, current_coro, native_registry, ret, call_sites, native_calls,
                   args_read, destroyed, regs_at_yield>>

\* 5) bytecode_create returns NULL where malloc fails, and so does
\* compiler_compile_ast; 6) vm_create never returns NULL: it calls exit(1)
\* where malloc fails.
HostCompileFails ==
    /\ phase = "parsed"
    /\ \/ /\ host' = Failed(Free(Free(Free(host, "root"), "lexer"), "source"),
                            "OSFL_ERROR_COMPILER")
          /\ phase' = "cleanup"
       \/ /\ host' = Acquire(host, "bc")
          /\ phase' = "exited"
    /\ UNCHANGED ret
    /\ HostUnchanged

\* vm_run is called once.
HostRunOnce == phase = "setup" /\ HostRun

AllFrees(h) ==
    Free(Free(Free(Free(Free(Free(Free(h, "vm"), "bc"), "root"), "parser"), "lexer"), "tokens"),
         "source")
FreedTwice(h) == \E r \in Resources : h.frees[r] > 1

\* cleanup: every pointer that is not NULL is destroyed or freed, and the
\* status is returned.  After a block was freed a second time the
\* function returns all the same or the process ends there.
HostCleanup ==
    /\ phase \in {"cleanup", "done"}
    /\ host' = AllFrees(host)
    /\ IF "vm" \in host.pointers THEN vm_destroy
       ELSE UNCHANGED <<pc, call_stack, return_addresses, call_sites, objVars>>
    /\ \/ /\ phase' = "returned"
          /\ ret' = [status |-> host.status]
       \/ /\ FreedTwice(host')
          /\ phase' = "crashed"
          /\ ret' = RetVoid
    /\ UNCHANGED <<lexer, lexed, ast, compiled, code, instruction_count, constant_pool, running,
                   registers, coroVars, native_registry, native_calls, args_read>>

InitRunFile ==
    /\ lexer = NoLexer
    /\ lexed = NoLexed
    /\ phase = "start"
    /\ NothingCompiled
    /\ host = NoHost

NextRunFile ==
    \/ HostReadFile
    \/ HostLexFile
    \/ HostParseFile
    \/ HostCompile
    \/ HostCompileFails
    \/ HostRunOnce
    \/ VmRunStep({code[pc]}, MaxDepth)
    \/ VmRunReturn
    \/ HostCleanup

SpecRunFile == InitRunFile /\ [][NextRunFile]_vars

\* main: EXIT_FAILURE where the status is not OSFL_SUCCESS.
ExitCode == IF ret.status # "OSFL_SUCCESS" THEN 1 ELSE 0

\* osfl_run_file has returned.
RunFileReturned == phase = "returned"

\* The VM stopped at an instruction other than HALT: a fatal error.
HaltedOnError == ~running /\ ~StoppedAt("OP_HALT")

\* C32: where the VM halted on a fatal runtime error, osfl_run_file returns
\* a status other than OSFL_SUCCESS with the last-error slot set, and the
\* exit code is not zero.
C32_RuntimeErrorIsReported ==
    (RunFileReturned /\ HaltedOnError) =>
        /\ ret.status # "OSFL_SUCCESS"
        /\ host.g_osfl_last_error # "OSFL_SUCCESS"
        /\ ExitCode # 0

\* osfl_run_file is over: it returned, or the process ended in its cleanup.
RunFileEnded == phase \in {"returned", "crashed"}

\* C39: on every path through osfl_run_file each resource it acquired has
\* been released exactly once when it ends, and nothing else was released.
C39_EachResourceReleasedOnce ==
    RunFileEnded =>
        \A r \in Resources : host.frees[r] = IF r \in host.pointers THEN 1 ELSE 0

\* ---------------------------------------------------------------------
\* CORO_YIELD in the runs of SpecCoro.
\* ---------------------------------------------------------------------

\* The step is a CORO_YIELD made while the current slot is active.
YieldStep ==
    /\ Executing
    /\ Executed.opcode = "OP_CORO_YIELD"
    /\ coroutines[current_coro].active

ActiveSlots(cs) == {i \in 0 .. MAX_COROUTINES - 1 : cs[i].active}

\* The slots that k CORO_YIELD instructions in a row make current, in
\* order: each is vm_coroutine_yield, then pc++.
RECURSIVE YieldOrder(_, _)
YieldOrder(s, k) ==
    IF k = 0 THEN <<>>
    ELSE After([vm_coroutine_yield(s) EXCEPT !.pc = @ + 1], LAMBDA t :
             <<t.current_coro>> \o YieldOrder(t, k - 1))

\* d slots after c, modulo the number of slots.
SlotAfter(c, d) == (c + d) % MAX_COROUTINES

\* C33: CORO_YIELD with the current slot c active stores pc in slot c, makes
\* current the first active slot in the order c+1, ..., c+64 (mod 64) and
\* goes on from that slot's saved pc; alone, c stays current; and n yields
\* in a row with n active slots make each of them current once and end at c.
C33_YieldIsRoundRobin ==
    [][YieldStep =>
          LET c == current_coro
              n == Cardinality(ActiveSlots(coroutines))
          IN  /\ coroutines' = [coroutines EXCEPT ![c].pc = pc]
              /\ \E d \in 1 .. MAX_COROUTINES :
                     /\ current_coro' = SlotAfter(c, d)
                     /\ coroutines[current_coro'].active
                     /\ \A e \in 1 .. d - 1 : ~coroutines[SlotAfter(c, e)].active
              /\ pc' = coroutines'[current_coro'].pc + 1
              /\ ActiveSlots(coroutines) = {c} => current_coro' = c
              /\ n <= MaxRound =>
                     LET order == YieldOrder(CoroState, n)
                     IN  /\ {order[k] : k \in 1 .. n} = ActiveSlots(coroutines)
                         /\ order[n] = c]_vars

\* Slots 0 and 1 are active and the CORO_YIELD at pc 0 has passed control
\* from slot 0 to slot 1.
C33_Witness ==
    /\ current_coro = 1
    /\ coroutines[0].active
    /\ coroutines[1].active
    /\ code[0] = Inst("OP_CORO_YIELD", 0, 0, 0, 0)
    /\ coroutines[0].pc = 0
    /\ pc = 1
    /\ regs_at_yield[0] # <<>>

\* ---------------------------------------------------------------------
\* The arguments of calls, in the runs of the compiled programs.
\* ---------------------------------------------------------------------

\* The arguments of the call in an ArgProgram.
ArgsOf(program) == program.as.statements[1].as.body.as.statements[1].as.expr.as.args

\* The value of an argument when the body of f runs from pc 0 in a new VM:
\* the parameters' registers hold Null.
ArgValue(e) ==
    CASE e.type = "AST_EXPR_LITERAL" -> IntValue(e.as.val)
      [] e.type = "AST_EXPR_BINARY" -> IntValue(e.as.left.as.val + e.as.right.as.val)
      [] OTHER -> NullValue

\* The VM is about to execute the CALL of the body for the first time.
AtFirstCall ==
    /\ phase = "vm_run"
    /\ LoopCond
    /\ call_stack = <<>>
    /\ code[pc].opcode = "OP_CALL"

\* C34: when the CALL of f(e0, ..., e(n-1)) is reached after the MOVE
\* sequence, register i holds the value of ei for every i < n.
C34_MovesPlaceArguments ==
    (ast \in CallPrograms /\ AtFirstCall) =>
        \A i \in 1 .. Len(ArgsOf(ast)) : registers[i - 1] = ArgValue(ArgsOf(ast)[i])

\* C35: the native called by g(e0, ..., e(n-1)) receives argc = n and
\* argv[i] = the value of ei, and CALL_NATIVE has op3 = n.
C35_NativeReceivesArguments ==
    (ast \in NativePrograms /\ native_calls # <<>>) =>
        /\ native_calls[1].arg_count = Len(ArgsOf(ast))
        /\ \E i \in 0 .. instruction_count - 1 :
               code[i].opcode = "OP_CALL_NATIVE" /\ code[i].operand3 = Len(ArgsOf(ast))
        /\ \A i \in 1 .. Len(ArgsOf(ast)) : native_calls[1].args[i] = ArgValue(ArgsOf(ast)[i])

\* ---------------------------------------------------------------------
\* Failing instructions in the runs of SpecArith.
\* ---------------------------------------------------------------------

\* The step executes an instruction other than HALT and stops the VM: the
\* instruction has failed.
FailingStep ==
    /\ Executing
    /\ Executed.opcode # "OP_HALT"
    /\ running
    /\ ~running'

\* C36: an instruction that fails leaves pc at the failing instruction and
\* its destination register as it was, whatever the opcode.
C36_FailureLeavesPc ==
    [][FailingStep =>
          /\ pc' = pc
          /\ ValidReg(Executed.operand1) =>
                 registers'[Executed.operand1] = registers[Executed.operand1]]_vars

\* ---------------------------------------------------------------------
\* Entering the body of main, in the runs of SpecCompile.
\* ---------------------------------------------------------------------

\* The programs  frame Main { func main() { ... } }  with one function: the
\* body of main and its RET are the instructions 0 .. count - 4, followed by
\* the frame's CALL and HALT and the HALT that ends every program.
MainPrograms == SumPrograms \cup {DeclProgram(v, TRUE) : v \in 0 .. MaxInt}
MainCall == instruction_count - 3

\* C37: in a program whose frame Main declares main, the body of main is
\* executed only inside a CALL (execution from pc 0 does not fall into it),
\* and the run ends at the HALT that follows the frame's CALL of main.
C37_MainEnteredByCall ==
    (Compiled /\ ast \in MainPrograms) =>
        /\ (phase = "vm_run" /\ running /\ pc < MainCall) => call_stack # <<>>
        /\ phase = "done" => (StoppedAt("OP_HALT") /\ pc = MainCall + 1)

\* ---------------------------------------------------------------------
\* The registers the compiler hands out.
\* ---------------------------------------------------------------------

\* C38: every register operand of the compiled bytecode is in 0 .. 15, and
\* after a function declaration the register counter has the value from
\* before the declaration.
C38_RegistersInRange ==
    Compiled =>
        /\ \A i \in 0 .. instruction_count - 1 :
               \A r \in RegisterOperands(code[i]) : r \in 0 .. NUM_REGISTERS - 1
        /\ ast \in CallPrograms \cup NativePrograms => compiled.next_register = 0

\* ---------------------------------------------------------------------
\* The progress of the lexer, in the runs of SpecLexer.
\* ---------------------------------------------------------------------

\* The lexer has bytes left to read.
InputRemains == lexer.position < lexer.length

\* C40: a lexer_next_token made while input remains consumes at least one
\* byte, whatever token it returns, and position never decreases; for a
\* source of N bytes the EOF token is among the first N + 1 tokens, and a
\* lexer_next_token after it returns EOF again and consumes nothing.
C40_NextTokenConsumes ==
    /\ [][/\ lexer'.position >= lexer.position
          /\ (NextTokenStep /\ InputRemains) => lexer'.position > lexer.position]_vars
    /\ [](Lexing =>
            /\ Len(lexed.tokens) <= lexer.length + 1
            /\ AtEndOfTokens =>
                   /\ ~InputRemains
                   /\ lexer_next_token(lexer).token.type = "TOKEN_EOF"
                   /\ lexer_next_token(lexer).lx.position = lexer.position)

\* A source of at least two bytes was read to the end with one call for each
\* byte and one for the EOF, and one of the tokens is an ERROR token.
C40_Witness ==
    /\ Lexing
    /\ AtEndOfTokens
    /\ lexer.length >= 2
    /\ Len(lexed.tokens) = lexer.length + 1
    /\ \E i \in 1 .. Len(lexed.tokens) : lexed.tokens[i].type = "TOKEN_ERROR"

====
